---- MODULE Spec2Model ----
(***************************************************************************)
(* Model of the JSON-LD validation engine (src/validator.py) of the Bulk   *)
(* Structured Data Generator, and of the batch run that drives it          *)
(* (src/app.py, phases 4 and 5; src/generator.py), and of the row          *)
(* preparation and the report (src/processor.py).                          *)
(*                                                                         *)
(* A JSON value is a tagged record:                                        *)
(*   [k |-> "none"]                 Python None / JSON null                *)
(*   [k |-> "bool", b |-> ...]      JSON true / false                      *)
(*   [k |-> "num",  n |-> ...]      JSON number                            *)
(*   [k |-> "str",  s |-> "..."]    a string taken as an atom (type names, *)
(*                                  ids, contexts, free text)              *)
(*   [k |-> "chars", c |-> <<..>>]  a string given character by character  *)
(*                                  (telephone and date values, on which   *)
(*                                  the code runs regular expressions)     *)
(*   [k |-> "list", xs |-> <<..>>]  JSON array                             *)
(*   [k |-> "dict", p |-> <<..>>]   JSON object: the sequence of its       *)
(*                                  <<key, value>> pairs in insertion      *)
(*                                  order (Python dict order), keys unique *)
(***************************************************************************)
EXTENDS Integers, Sequences, FiniteSets, TLC

VARIABLES
    raw_json,         \* the raw text handed to validate_jsonld
    all_defined_ids,  \* the global id registry handed to validate_jsonld
    pc,               \* position inside validate_jsonld
    frame,            \* locals of the running call: parsed, entities, issues, auto_fixes
    result,           \* the ValidationResult returned by the call (NoResult before)
    rerun,            \* result of validating again the serialization of result.parsed
    replies,          \* batch run: what the external model answers for each row
    row_idx,          \* batch run: the row the generation loop is at
    results,          \* batch run: the results list
    jsonld_blocks,    \* batch run: the parsed documents kept for the wiring pass
    run_graph_wiring, \* batch run: the wiring pass is switched on
    calls,            \* batch run: the calls of validate_jsonld made, with the registry passed
    wiring,           \* batch run: what the external model answered to the wiring pass
    file_content,     \* row preparation: the rows of the uploaded CSV
    rows,             \* row preparation: the rows kept, with their types once assigned
    hierarchy,        \* row preparation: the service hierarchy
    val_results,      \* row preparation: the validation results the report is built from
    report            \* row preparation: the validation report

valVars == <<raw_json, frame, result, rerun>>
batchVars == <<replies, row_idx, results, jsonld_blocks, run_graph_wiring, calls, wiring>>
procVars == <<file_content, rows, hierarchy, val_results, report>>
vars == <<raw_json, all_defined_ids, pc, frame, result, rerun,
          replies, row_idx, results, jsonld_blocks, run_graph_wiring, calls, wiring,
          file_content, rows, hierarchy, val_results, report>>

----------------------------------------------------------------------------
(* JSON values                                                             *)

JNone == [k |-> "none"]
JBool(b) == [k |-> "bool", b |-> b]
JNum(n) == [k |-> "num", n |-> n]
JStr(s) == [k |-> "str", s |-> s]
JChars(c) == [k |-> "chars", c |-> c]
JList(xs) == [k |-> "list", xs |-> xs]
JDict(p) == [k |-> "dict", p |-> p]

EmptyStr == JStr("")
EmptyDict == JDict(<<>>)

IsDict(v) == v.k = "dict"
IsList(v) == v.k = "list"
IsString(v) == v.k \in {"str", "chars"}

\* Python truthiness (bool(v)).
Truthy(v) ==
    CASE v.k = "none" -> FALSE
      [] v.k = "bool" -> v.b
      [] v.k = "num" -> v.n # 0
      [] v.k = "str" -> v.s # ""
      [] v.k = "chars" -> Len(v.c) > 0
      [] v.k = "list" -> Len(v.xs) > 0
      [] v.k = "dict" -> Len(v.p) > 0

\* hash(v) raises TypeError for lists and dicts.
Hashable(v) == v.k \notin {"list", "dict"}

\* v == "literal" for a string literal of the source.
EqLit(v, lit) == v.k = "str" /\ v.s = lit

\* v in {literals}: membership of a hashable value in a set or dict of
\* string literals.
InLits(v, lits) == v.k = "str" /\ v.s \in lits

\* key in d
Has(d, key) == \E i \in 1..Len(d.p) : d.p[i][1] = key

\* d.get(key, default)
Get(d, key, default) ==
    IF Has(d, key)
    THEN d.p[CHOOSE i \in 1..Len(d.p) : d.p[i][1] = key][2]
    ELSE default

\* d[key] = v  (an existing key keeps its position, a new key goes last)
Put(d, key, v) ==
    IF Has(d, key)
    THEN JDict([i \in 1..Len(d.p) |->
                  IF d.p[i][1] = key THEN <<key, v>> ELSE d.p[i]])
    ELSE JDict(Append(d.p, <<key, v>>))

\* list(d.keys())
Keys(d) == [i \in 1..Len(d.p) |-> d.p[i][1]]

\* A path locates a dict inside the parsed document: a sequence of steps,
\* each a key of a dict or an index of a list.  The code holds references
\* to the dicts themselves; a path is that reference.
AtKey(key) == [key |-> key]
AtIdx(i) == [idx |-> i]
IsKeyStep(st) == "key" \in DOMAIN st

RECURSIVE At(_, _)
At(v, path) ==
    IF path = <<>> THEN v
    ELSE LET st == Head(path) IN
         IF IsKeyStep(st)
         THEN At(Get(v, st.key, JNone), Tail(path))
         ELSE At(v.xs[st.idx], Tail(path))

RECURSIVE SetAt(_, _, _)
SetAt(v, path, new) ==
    IF path = <<>> THEN new
    ELSE LET st == Head(path) IN
         IF IsKeyStep(st)
         THEN Put(v, st.key, SetAt(Get(v, st.key, JNone), Tail(path), new))
         ELSE JList([i \in 1..Len(v.xs) |->
                       IF i = st.idx THEN SetAt(v.xs[i], Tail(path), new)
                       ELSE v.xs[i]])

\* Concatenation of a sequence of sequences.
RECURSIVE Flatten(_)
Flatten(ss) == IF Len(ss) = 0 THEN <<>> ELSE Head(ss) \o Flatten(Tail(ss))

----------------------------------------------------------------------------
(* Vocabulary tables (src/knowledge.py) and rule constants                 *)

CANONICAL_CONTEXT == "https://schema.org"

LEGACY_CONTEXTS ==
    {"http://schema.org", "http://www.schema.org", "https://www.schema.org"}

valid_types ==
    {"Organization", "LocalBusiness", "Service", "WebContent", "AboutPage",
     "Person", "PostalAddress", "GeoCoordinates", "OpeningHoursSpecification",
     "City", "Place", "AdministrativeArea", "Country", "State",
     "OfferCatalog", "Offer", "ImageObject", "Thing",
     "CollegeOrUniversity", "EducationalOrganization",
     "Dentist", "LegalService", "MedicalBusiness", "ProfessionalService",
     "AutoRepair", "HomeAndConstructionBusiness"}

major_types ==
    {"Organization", "LocalBusiness", "Service", "WebContent", "AboutPage", "Person"}

DEPRECATED_TYPES == {"WebPage", "WebSite"}

DEPRECATED_PROPERTIES ==
    {"serviceArea", "significantLink", "significantLinks", "isBasedOnUrl"}

\* INVALID_PROPERTIES: the properties forbidden on a type ({} for a type
\* that is not a key of the table).
INVALID_PROPERTIES(t) ==
    CASE t = "Service" -> {"keywords", "email", "telephone", "address", "foundingDate",
                           "datePublished", "dateModified", "dateCreated"}
      [] t = "Person" -> {"keywords", "logo"}
      [] OTHER -> {}

INVALID_PROPERTIES_KEYS == {"Service", "Person"}

CONTAINER_ONLY_PROPERTIES ==
    <<"keywords", "datePublished", "dateModified", "dateCreated",
      "creator", "contributor", "maintainer",
      "contentLocation", "locationCreated", "countryOfOrigin", "headline">>

NESTED_ONLY_PROPERTIES ==
    <<"provider", "brand", "areaServed", "isRelatedTo", "isSimilarTo",
      "serviceType", "hasOfferCatalog",
      "worksFor", "givenName", "familyName", "jobTitle", "alumniOf", "knowsAbout",
      "parentOrganization", "geo", "hasMap", "openingHoursSpecification">>

date_props == <<"foundingDate", "dateCreated", "dateModified", "datePublished">>

EXTERNAL_PREFIXES ==
    {"http://www.wikidata.org", "https://g.co", "https://www.google.com/maps"}

E164MinDigits == 10
E164MaxDigits == 15
NationalDigits == 10
NationalWithCountryDigits == 11

----------------------------------------------------------------------------
(* Text: raw JSON text, strings and the regular expressions run on them    *)

\* A raw text is the serialization of a JSON value (wrap "none"), that
\* serialization inside a <script type="application/ld+json"> wrapper
\* (wrap "script"), inside a markdown code fence (wrap "fenced"), a
\* truncated serialization (wrap "truncated"), or the empty text.
RawText(wrap, body) == [wrap |-> wrap, body |-> body]

EmptyText == RawText("empty", JNone)

\* json.loads: only a bare serialization parses.
json_loads(raw) ==
    IF raw.wrap = "none" THEN [ok |-> TRUE, val |-> raw.body]
    ELSE [ok |-> FALSE, val |-> JNone]

\* json.dumps: the serialization carries every string of the tree as it is
\* ("<" is not escaped).
json_dumps(v) == RawText("none", v)

\* str.lower() on the texts of the model.
Lower(s) ==
    CASE s = "<SCRIPT>alert(1)</SCRIPT>" -> "<script>alert(1)</script>"
      [] OTHER -> s

\* "<script" in s, for a lower-cased text s of the model.
HasScriptSubstring(s) == s \in {"<script>alert(1)</script>"}

RECURSIVE TextHasScript(_)
TextHasScript(v) ==
    CASE v.k = "str" -> HasScriptSubstring(Lower(v.s))
      [] v.k = "list" -> \E i \in 1..Len(v.xs) : TextHasScript(v.xs[i])
      [] v.k = "dict" -> \E i \in 1..Len(v.p) :
                            \/ HasScriptSubstring(Lower(v.p[i][1]))
                            \/ TextHasScript(v.p[i][2])
      [] OTHER -> FALSE

\* "<script" in raw_json.lower()
ContainsScriptTag(raw) == raw.wrap = "script" \/ TextHasScript(raw.body)

\* The characters of a string value.  An atom is a text without digits and
\* without "+": it counts as one non-digit character.
CharsOf(v) == IF v.k = "chars" THEN v.c ELSE <<v.s>>

IsDigit(ch) == ch \in {"0", "1", "2", "3", "4", "5", "6", "7", "8", "9"}

\* "+" followed by 10 to 15 digits and nothing else.
IsE164(c) ==
    /\ Len(c) >= 1
    /\ c[1] = "+"
    /\ Len(c) - 1 >= E164MinDigits
    /\ Len(c) - 1 <= E164MaxDigits
    /\ \A i \in 2..Len(c) : IsDigit(c[i])

\* re.match(r"^\+\d{10,15}$", phone): "$" matches at the end of the string
\* and also just before a newline that ends the string.
MatchE164(c) ==
    \/ IsE164(c)
    \/ /\ Len(c) >= 1
       /\ c[Len(c)] = "\n"
       /\ IsE164(SubSeq(c, 1, Len(c) - 1))

\* re.sub(r"\D", "", phone)
StripNonDigits(c) == SelectSeq(c, IsDigit)

\* re.match(r"^\d{4}-\d{2}-\d{2}(T\d{2}:\d{2}:\d{2})?", val): a prefix match
_is_valid_date(c) ==
    /\ Len(c) >= 10
    /\ \A i \in {1, 2, 3, 4, 6, 7, 9, 10} : IsDigit(c[i])
    /\ c[5] = "-"
    /\ c[8] = "-"

----------------------------------------------------------------------------
(* Entity extraction                                                       *)

\* _extract_entities raises when parsed is not a dict ("@graph" in parsed
\* or entity.items() fail) and when @graph is not iterable.
ExtractFaults(parsed) ==
    \/ ~IsDict(parsed)
    \/ /\ Has(parsed, "@graph")
       /\ Get(parsed, "@graph", JNone).k \in {"none", "num", "bool"}

\* The paths of the dict members of @graph, or the root alone.
TopEntities(parsed) ==
    IF Has(parsed, "@graph")
    THEN LET g == Get(parsed, "@graph", JNone) IN
         IF IsList(g)
         THEN LET idx == SelectSeq([i \in 1..Len(g.xs) |-> i],
                                   LAMBDA i : IsDict(g.xs[i]))
              IN [j \in 1..Len(idx) |-> <<AtKey("@graph"), AtIdx(idx[j])>>]
         ELSE <<>>   \* iterating a dict or a string yields no dict
    ELSE << <<>> >>

\* The typed dict-valued properties of the entity at path.
TypedChildren(parsed, path) ==
    LET e == At(parsed, path)
        ks == SelectSeq(Keys(e),
                        LAMBDA key : /\ IsDict(Get(e, key, JNone))
                                     /\ Has(Get(e, key, JNone), "@type"))
    IN [j \in 1..Len(ks) |-> Append(path, AtKey(ks[j]))]

\* _extract_entities as a fixed point over two rounds: the typed
\* dict-valued properties of the appended entities are appended too.
_extract_entities_TwoRounds(parsed) ==
    LET top == TopEntities(parsed)
        first == Flatten([j \in 1..Len(top) |-> TypedChildren(parsed, top[j])])
    IN top \o first \o Flatten([j \in 1..Len(first) |-> TypedChildren(parsed, first[j])])

\* _extract_entities: the top entities followed by one pass over them that
\* appends their typed dict-valued properties.
_extract_entities(parsed) ==
    LET top == TopEntities(parsed) IN
    top \o Flatten([j \in 1..Len(top) |-> TypedChildren(parsed, top[j])])

----------------------------------------------------------------------------
(* Issues, auto-fixes and results                                          *)

\* An issue is the tuple (rule number, severity, message); the message is
\* its fixed text and the value interpolated into it.
Issue(rule, sev, text, arg) == [rule |-> rule, sev |-> sev, text |-> text, arg |-> arg]

AutoFix(text, arg) == [text |-> text, arg |-> arg]

\* _result with the two tests in the wrong order: WARN wins over FAIL.
_result_WarnFirst(issues, auto_fixes, parsed) ==
    LET has_fail == \E i \in 1..Len(issues) : issues[i].sev = "FAIL"
        has_warn == \E i \in 1..Len(issues) : issues[i].sev = "WARN"
    IN [status |-> IF has_warn THEN "WARN" ELSE IF has_fail THEN "FAIL" ELSE "PASS",
        issues |-> issues, auto_fixes |-> auto_fixes, parsed |-> parsed]

\* _result: the status is reduced from the severities of the issues.
_result(issues, auto_fixes, parsed) ==
    LET has_fail == \E i \in 1..Len(issues) : issues[i].sev = "FAIL"
        has_warn == \E i \in 1..Len(issues) : issues[i].sev = "WARN"
    IN [status |-> IF has_fail THEN "FAIL" ELSE IF has_warn THEN "WARN" ELSE "PASS",
        issues |-> issues, auto_fixes |-> auto_fixes, parsed |-> parsed]

\* No result yet.
NoResult == [status |-> "NONE", issues |-> <<>>, auto_fixes |-> <<>>, parsed |-> JNone]

\* The call ended with an uncaught exception: the caller gets no result.
Raised == [status |-> "RAISED", issues |-> <<>>, auto_fixes |-> <<>>, parsed |-> JNone]

IsReturned(r) == r.status \in {"PASS", "WARN", "FAIL"}

\* Locals of validate_jsonld at entry.  entities holds the paths of the
\* extracted entities; evaluated records the rules whose code has run;
\* status is "running", "returning" (a return statement was reached) or
\* "raised" (an exception left the function).
InitFrame ==
    [parsed |-> JNone, entities |-> <<>>, issues |-> <<>>, auto_fixes |-> <<>>,
     evaluated |-> {}, status |-> "running"]

Raise(f) == [f EXCEPT !.status = "raised"]

Ran(f, rule) == [f EXCEPT !.evaluated = @ \cup {rule}]

AddIssues(f, new) == [f EXCEPT !.issues = @ \o new]

\* The entity dicts, in extraction order.
EntityDicts(f) == [j \in 1..Len(f.entities) |-> At(f.parsed, f.entities[j])]

\* entity.get("@type", "")
TypeOf(e) == Get(e, "@type", EmptyStr)

----------------------------------------------------------------------------
(* validate_jsonld, rule by rule                                           *)

\* Rule 1 without its return statement: the issue is recorded and the call
\* goes on.
Rule1_NoReturn(f, raw) ==
    LET r == json_loads(raw) IN
    IF r.ok
    THEN Ran([f EXCEPT !.parsed = r.val], 1)
    ELSE Ran([f EXCEPT !.issues = Append(@, Issue(1, "FAIL", "Invalid JSON syntax", JNone))], 1)

\* Rule 1: json.loads(raw_json); a JSONDecodeError records the only issue
\* and returns.
Rule1(f, raw) ==
    LET r == json_loads(raw) IN
    IF r.ok
    THEN Ran([f EXCEPT !.parsed = r.val], 1)
    ELSE Ran([f EXCEPT !.issues = Append(@, Issue(1, "FAIL", "Invalid JSON syntax", JNone)),
                       !.status = "returning"], 1)

\* entities = _extract_entities(parsed)
Extract(f) ==
    IF ExtractFaults(f.parsed) THEN Raise(f)
    ELSE [f EXCEPT !.entities = _extract_entities(f.parsed)]

\* Rule 2 returning as soon as it records its FAIL.
Rule2_ReturnOnFail(f) ==
    LET context == Get(f.parsed, "@context", EmptyStr) IN
    Ran(IF ~Truthy(context)
        THEN [f EXCEPT !.issues = Append(@, Issue(2, "FAIL", "@context is missing", JNone)),
                       !.status = "returning"]
        ELSE IF ~EqLit(context, CANONICAL_CONTEXT)
        THEN IF InLits(context, LEGACY_CONTEXTS)
             THEN [f EXCEPT !.auto_fixes = Append(@, AutoFix("Fixed @context to https://schema.org", JNone)),
                            !.parsed = Put(@, "@context", JStr(CANONICAL_CONTEXT))]
             ELSE [f EXCEPT !.issues = Append(@, Issue(2, "FAIL", "@context is not https://schema.org", context)),
                            !.status = "returning"]
        ELSE f, 2)

\* Rule 2 with https://www.schema.org missing from the legacy variants.
Rule2_TwoLegacy(f) ==
    LET context == Get(f.parsed, "@context", EmptyStr) IN
    Ran(IF ~Truthy(context)
        THEN AddIssues(f, <<Issue(2, "FAIL", "@context is missing", JNone)>>)
        ELSE IF ~EqLit(context, CANONICAL_CONTEXT)
        THEN IF InLits(context, {"http://schema.org", "http://www.schema.org"})
             THEN [f EXCEPT !.auto_fixes = Append(@, AutoFix("Fixed @context to https://schema.org", JNone)),
                            !.parsed = Put(@, "@context", JStr(CANONICAL_CONTEXT))]
             ELSE AddIssues(f, <<Issue(2, "FAIL", "@context is not https://schema.org", context)>>)
        ELSE f, 2)

\* Rule 2: @context
Rule2(f) ==
    LET context == Get(f.parsed, "@context", EmptyStr) IN
    Ran(IF ~Truthy(context)
        THEN AddIssues(f, <<Issue(2, "FAIL", "@context is missing", JNone)>>)
        ELSE IF ~EqLit(context, CANONICAL_CONTEXT)
        THEN IF InLits(context, LEGACY_CONTEXTS)
             THEN [f EXCEPT !.auto_fixes = Append(@, AutoFix("Fixed @context to https://schema.org", JNone)),
                            !.parsed = Put(@, "@context", JStr(CANONICAL_CONTEXT))]
             ELSE AddIssues(f, <<Issue(2, "FAIL", "@context is not https://schema.org", context)>>)
        ELSE f, 2)

\* Rule 3: @type validity
Rule3(f) ==
    LET es == EntityDicts(f)
        One(e) == IF Truthy(TypeOf(e)) /\ ~InLits(TypeOf(e), valid_types)
                  THEN <<Issue(3, "FAIL", "Fabricated @type", TypeOf(e))>> ELSE <<>>
    IN IF \E j \in 1..Len(es) : Truthy(TypeOf(es[j])) /\ ~Hashable(TypeOf(es[j]))
       THEN Raise(f)
       ELSE Ran(AddIssues(f, Flatten([j \in 1..Len(es) |-> One(es[j])])), 3)

\* Rule 4: @id on major entities
Rule4(f) ==
    LET es == EntityDicts(f)
        One(e) == IF InLits(Get(e, "@type", JNone), major_types) /\ ~Truthy(Get(e, "@id", JNone))
                  THEN <<Issue(4, "FAIL", "missing @id", Get(e, "@type", JNone))>> ELSE <<>>
    IN IF \E j \in 1..Len(es) : ~Hashable(Get(es[j], "@type", JNone))
       THEN Raise(f)
       ELSE Ran(AddIssues(f, Flatten([j \in 1..Len(es) |-> One(es[j])])), 4)

\* Rule 5: no deprecated types
Rule5(f) ==
    LET es == EntityDicts(f)
        One(e) == IF InLits(TypeOf(e), DEPRECATED_TYPES)
                  THEN <<Issue(5, "FAIL", "Deprecated type", TypeOf(e))>> ELSE <<>>
    IN IF \E j \in 1..Len(es) : ~Hashable(TypeOf(es[j]))
       THEN Raise(f)
       ELSE Ran(AddIssues(f, Flatten([j \in 1..Len(es) |-> One(es[j])])), 5)

\* Rule 6: no deprecated properties
Rule6(f) ==
    LET es == EntityDicts(f)
        One(e) == LET ks == SelectSeq(Keys(e), LAMBDA key : key \in DEPRECATED_PROPERTIES)
                  IN [i \in 1..Len(ks) |-> Issue(6, "FAIL", "Deprecated property", JStr(ks[i]))]
    IN Ran(AddIssues(f, Flatten([j \in 1..Len(es) |-> One(es[j])])), 6)

\* Rule 7: property-type compatibility
Rule7(f) ==
    LET es == EntityDicts(f)
        One(e) == IF InLits(TypeOf(e), INVALID_PROPERTIES_KEYS)
                  THEN LET ks == SelectSeq(Keys(e),
                                   LAMBDA key : key \in INVALID_PROPERTIES(TypeOf(e).s))
                       IN [i \in 1..Len(ks) |->
                             Issue(7, "WARN", "Property is not valid on @type", JStr(ks[i]))]
                  ELSE <<>>
    IN IF \E j \in 1..Len(es) : ~Hashable(TypeOf(es[j]))
       THEN Raise(f)
       ELSE Ran(AddIssues(f, Flatten([j \in 1..Len(es) |-> One(es[j])])), 7)

\* Rule 9 without the test for an Organization or LocalBusiness entity.
Rule9_AnyType(f) ==
    LET es == EntityDicts(f)
        Full(e) == LET addr == Get(e, "address", EmptyDict) IN
                   /\ IsDict(addr)
                   /\ LET country == Get(addr, "addressCountry", EmptyDict) IN
                      /\ IsDict(country)
                      /\ EqLit(Get(country, "@type", JNone), "Country")
        has_full_country == \E j \in 1..Len(es) : Full(es[j])
    IN Ran(IF ~has_full_country
           THEN AddIssues(f, <<Issue(9, "WARN", "Country entity not fully defined in any PostalAddress", JNone)>>)
           ELSE f, 9)

\* Rule 9: Country entity defined
Rule9(f) ==
    LET es == EntityDicts(f)
        Full(e) == LET addr == Get(e, "address", EmptyDict) IN
                   /\ IsDict(addr)
                   /\ LET country == Get(addr, "addressCountry", EmptyDict) IN
                      /\ IsDict(country)
                      /\ EqLit(Get(country, "@type", JNone), "Country")
        has_full_country == \E j \in 1..Len(es) : Full(es[j])
        has_org == \E j \in 1..Len(es) :
                      InLits(Get(es[j], "@type", JNone), {"Organization", "LocalBusiness"})
    IN Ran(IF ~has_full_country /\ has_org
           THEN AddIssues(f, <<Issue(9, "WARN", "Country entity not fully defined in any PostalAddress", JNone)>>)
           ELSE f, 9)

\* Rule 10 on one entity: the telephone is left alone when it is empty or
\* matches the E.164 pattern; otherwise it is rewritten from its digits
\* when they are 10, or 11 starting with "1", and warned about when not.
Rule10One(f, path) ==
    LET entity == At(f.parsed, path)
        phone == Get(entity, "telephone", EmptyStr)
    IN IF Truthy(phone) /\ ~MatchE164(CharsOf(phone))
       THEN LET digits == StripNonDigits(CharsOf(phone)) IN
            IF Len(digits) = NationalDigits
            THEN LET fixed == JChars(<<"+", "1">> \o digits) IN
                 [f EXCEPT !.parsed = SetAt(@, path, Put(entity, "telephone", fixed)),
                           !.auto_fixes = Append(@, AutoFix("Auto-fixed phone to E.164", fixed))]
            ELSE IF Len(digits) = NationalWithCountryDigits /\ digits[1] = "1"
            THEN LET fixed == JChars(<<"+">> \o digits) IN
                 [f EXCEPT !.parsed = SetAt(@, path, Put(entity, "telephone", fixed)),
                           !.auto_fixes = Append(@, AutoFix("Auto-fixed phone to E.164", fixed))]
            ELSE AddIssues(f, <<Issue(10, "WARN", "Phone is not E.164 format", phone)>>)
       ELSE f

RECURSIVE Rule10From(_, _)
Rule10From(f, j) ==
    IF j > Len(f.entities) THEN f
    ELSE Rule10From(Rule10One(f, f.entities[j]), j + 1)

\* Rule 10: telephone format.  re.match raises TypeError on a non-empty
\* telephone that is not a string.
Rule10(f) ==
    LET es == EntityDicts(f) IN
    IF \E j \in 1..Len(es) :
          LET phone == Get(es[j], "telephone", EmptyStr) IN
          Truthy(phone) /\ ~IsString(phone)
    THEN Raise(f)
    ELSE Ran(Rule10From(f, 1), 10)

\* Rule 11: date format
Rule11(f) ==
    LET es == EntityDicts(f)
        Val(e, i) == Get(e, date_props[i], EmptyStr)
        ps(e) == SelectSeq([i \in 1..Len(date_props) |-> i],
                           LAMBDA i : Truthy(Val(e, i)) /\ ~_is_valid_date(CharsOf(Val(e, i))))
        One(e) == [n \in 1..Len(ps(e)) |->
                     Issue(11, "WARN", "Date is not ISO 8601", Val(e, ps(e)[n]))]
    IN IF \E j \in 1..Len(es) : \E i \in 1..Len(date_props) :
             Truthy(Val(es[j], i)) /\ ~IsString(Val(es[j], i))
       THEN Raise(f)
       ELSE Ran(AddIssues(f, Flatten([j \in 1..Len(es) |-> One(es[j])])), 11)

\* Rule 12: no script tags.  The auto-fix is recorded; neither raw_json nor
\* parsed is changed.
Rule12(f, raw) ==
    Ran(IF ContainsScriptTag(raw)
        THEN [f EXCEPT !.auto_fixes = Append(@, AutoFix("Stripped <script> tags from output", JNone)),
                       !.issues = Append(@, Issue(12, "WARN", "Output contained <script> tags (auto-removed)", JNone))]
        ELSE f, 12)

\* ref.startswith(prefix) on the ids of the model.
StartsWith(s, prefix) ==
    \/ s = prefix
    \/ prefix = "http://www.wikidata.org" /\ s \in {"http://www.wikidata.org/entity/Q30"}
    \/ prefix = "https://g.co" /\ s \in {"https://g.co/kgs/x1"}
    \/ prefix = "https://www.google.com/maps" /\ s \in {"https://www.google.com/maps/place/x"}

IsExternal(ref) == ref.k = "str" /\ \E pre \in EXTERNAL_PREFIXES : StartsWith(ref.s, pre)

\* The dict val is a bare reference that _check_id_refs tests.
IsBareRef(val) == Truthy(Get(val, "@id", JNone)) /\ ~Truthy(Get(val, "@type", JNone))

\* _check_id_refs: the issues appended for obj, in order.  Every dict value
\* is tested as a bare reference and then descended into; of a list value
\* the dict items are descended into.
RECURSIVE _check_id_refs(_, _)
_check_id_refs(obj, known_ids) ==
    LET OfItem(item) == IF IsDict(item) THEN _check_id_refs(item, known_ids) ELSE <<>>
        OfPair(pr) ==
            LET key == pr[1]
                val == pr[2]
            IN IF key = "@id" THEN <<>>
               ELSE IF IsDict(val)
               THEN LET ref == Get(val, "@id", JNone) IN
                    (IF IsBareRef(val) /\ ~IsExternal(ref) /\ ref \notin known_ids
                     THEN <<Issue(13, "WARN", "Unresolved @id reference", ref)>>
                     ELSE <<>>)
                    \o _check_id_refs(val, known_ids)
               ELSE IF IsList(val)
               THEN Flatten([i \in 1..Len(val.xs) |-> OfItem(val.xs[i])])
               ELSE <<>>
    IN Flatten([i \in 1..Len(obj.p) |-> OfPair(obj.p[i])])

\* _check_id_refs raises when it reaches a bare reference whose @id is not
\* a string (ref.startswith).
RECURSIVE CheckIdRefsFaults(_)
CheckIdRefsFaults(obj) ==
    \E i \in 1..Len(obj.p) :
        LET key == obj.p[i][1]
            val == obj.p[i][2]
        IN /\ key # "@id"
           /\ \/ /\ IsDict(val)
                 /\ \/ IsBareRef(val) /\ ~IsString(Get(val, "@id", JNone))
                    \/ CheckIdRefsFaults(val)
              \/ /\ IsList(val)
                 /\ \E n \in 1..Len(val.xs) :
                       IsDict(val.xs[n]) /\ CheckIdRefsFaults(val.xs[n])

\* No registry was passed (all_defined_ids=None).
NoRegistry == {"<None>"}

\* local_ids: the non-empty @id values of the extracted entities.
LocalIds(f) ==
    LET es == EntityDicts(f) IN
    {Get(es[j], "@id", JNone) : j \in {i \in 1..Len(es) : Truthy(Get(es[i], "@id", JNone))}}

\* Rule 13 looking up the local ids only, not the registry.
Rule13_LocalOnly(f, ids) ==
    IF ids = NoRegistry THEN f
    ELSE LET es == EntityDicts(f)
             combined == LocalIds(f)
         IN IF \/ \E j \in 1..Len(es) : ~Hashable(Get(es[j], "@id", JNone))
                                        /\ Truthy(Get(es[j], "@id", JNone))
               \/ \E j \in 1..Len(es) : CheckIdRefsFaults(es[j])
            THEN Raise(f)
            ELSE Ran(AddIssues(f, Flatten([j \in 1..Len(es) |-> _check_id_refs(es[j], combined)])), 13)

\* Rule 13: @id references resolve
Rule13(f, ids) ==
    IF ids = NoRegistry THEN f
    ELSE LET es == EntityDicts(f)
             combined == LocalIds(f) \cup {JStr(x) : x \in ids}
         IN IF \/ \E j \in 1..Len(es) : ~Hashable(Get(es[j], "@id", JNone))
                                        /\ Truthy(Get(es[j], "@id", JNone))
               \/ \E j \in 1..Len(es) : CheckIdRefsFaults(es[j])
            THEN Raise(f)
            ELSE Ran(AddIssues(f, Flatten([j \in 1..Len(es) |-> _check_id_refs(es[j], combined)])), 13)

\* _check_dual_type_integrity (Rule 16): the issues appended.
_check_dual_type_integrity(parsed, es) ==
    IF ~Has(parsed, "@graph") THEN <<>>
    ELSE
    LET major_entities == SelectSeq(es, LAMBDA e : InLits(Get(e, "@type", JNone), major_types))
        \* the loop keeps the last WebContent and the last nested-kind entity
        containers == SelectSeq(major_entities, LAMBDA e : EqLit(Get(e, "@type", JNone), "WebContent"))
        nesteds == SelectSeq(major_entities,
                       LAMBDA e : InLits(Get(e, "@type", JNone),
                                         {"Service", "Person", "LocalBusiness", "Organization"}))
    IN IF Len(major_entities) < 2 THEN <<>>
       ELSE IF Len(containers) = 0 \/ Len(nesteds) = 0 THEN <<>>
       ELSE
       LET container == containers[Len(containers)]
           nested == nesteds[Len(nesteds)]
           me == Get(container, "mainEntity", EmptyDict)
           so == Get(nested, "subjectOf", EmptyDict)
           nested_type == TypeOf(nested)
           misplaced == SelectSeq(CONTAINER_ONLY_PROPERTIES,
                                  LAMBDA prop : Has(nested, prop) /\ prop # "headline")
           misplaced2 == SelectSeq(NESTED_ONLY_PROPERTIES, LAMBDA prop : Has(container, prop))
       IN (IF ~Truthy(Get(container, "mainEntity", JNone))
           THEN <<Issue(16, "WARN", "Dual-type: WebContent container missing mainEntity", JNone)>>
           ELSE <<>>)
          \o (IF ~Truthy(Get(nested, "subjectOf", JNone))
              THEN <<Issue(16, "WARN", "Dual-type: nested missing subjectOf", nested_type)>>
              ELSE <<>>)
          \o (IF IsDict(me) /\ Get(me, "@id", JNone) # Get(nested, "@id", JNone)
              THEN <<Issue(16, "WARN", "Dual-type: mainEntity @id doesn't match nested entity @id", JNone)>>
              ELSE <<>>)
          \o (IF IsDict(so) /\ Get(so, "@id", JNone) # Get(container, "@id", JNone)
              THEN <<Issue(16, "WARN", "Dual-type: subjectOf @id doesn't match container @id", JNone)>>
              ELSE <<>>)
          \o [i \in 1..Len(misplaced) |->
                Issue(16, "WARN", "Dual-type: property should be on WebContent container", JStr(misplaced[i]))]
          \o [i \in 1..Len(misplaced2) |->
                Issue(16, "WARN", "Dual-type: property should be on nested entity", JStr(misplaced2[i]))]

\* Rule 16 with the dual-type threshold off by one: three major entities
\* are needed before the pair is looked at.
Rule16_ThreeMajor(f) ==
    LET es == EntityDicts(f) IN
    IF Has(f.parsed, "@graph") /\ \E j \in 1..Len(es) : ~Hashable(Get(es[j], "@type", JNone))
    THEN Raise(f)
    ELSE IF Len(SelectSeq(es, LAMBDA e : InLits(Get(e, "@type", JNone), major_types))) < 3
         THEN Ran(f, 16)
         ELSE Ran(AddIssues(f, _check_dual_type_integrity(f.parsed, es)), 16)

\* Rule 16: dual-type integrity.  The filter on major_types hashes @type.
Rule16(f) ==
    LET es == EntityDicts(f) IN
    IF Has(f.parsed, "@graph") /\ \E j \in 1..Len(es) : ~Hashable(Get(es[j], "@type", JNone))
    THEN Raise(f)
    ELSE Ran(AddIssues(f, _check_dual_type_integrity(f.parsed, es)), 16)

\* return _result(issues, auto_fixes, parsed), or no result when raised
Outcome(f) ==
    IF f.status = "raised" THEN Raised
    ELSE _result(f.issues, f.auto_fixes, f.parsed)

\* The steps of validate_jsonld, in the order of the code.
Steps ==
    <<"rule1", "extract", "rule2", "rule3", "rule4", "rule5", "rule6", "rule7",
      "rule9", "rule10", "rule11", "rule12", "rule13", "rule16">>

Step(name, f, raw, ids) ==
    CASE name = "rule1" -> Rule1(f, raw)
      [] name = "extract" -> Extract(f)
      [] name = "rule2" -> Rule2(f)
      [] name = "rule3" -> Rule3(f)
      [] name = "rule4" -> Rule4(f)
      [] name = "rule5" -> Rule5(f)
      [] name = "rule6" -> Rule6(f)
      [] name = "rule7" -> Rule7(f)
      [] name = "rule9" -> Rule9(f)
      [] name = "rule10" -> Rule10(f)
      [] name = "rule11" -> Rule11(f)
      [] name = "rule12" -> Rule12(f, raw)
      [] name = "rule13" -> Rule13(f, ids)
      [] name = "rule16" -> Rule16(f)

\* The frame after the steps from the i-th on, stopping at a return
\* statement or an exception.
RECURSIVE RunFrom(_, _, _, _)
RunFrom(f, i, raw, ids) ==
    IF i > Len(Steps) \/ f.status # "running" THEN f
    ELSE RunFrom(Step(Steps[i], f, raw, ids), i + 1, raw, ids)

\* validate_jsonld as one call
validate_jsonld(raw, ids) == Outcome(RunFrom(InitFrame, 1, raw, ids))

----------------------------------------------------------------------------
(* Inputs: the documents a generation call may hand to the validator       *)

\* Telephones carry up to MaxPhoneDigits digits (and two fixed extremes).
MaxPhoneDigits == 11
ShortPhoneDigits == 7
LongPhoneDigits == 16
PhoneDigitCounts == {ShortPhoneDigits, LongPhoneDigits} \cup (9..MaxPhoneDigits)

IdOrg == "https://x.com/#Organization"
IdSvc == "https://x.com/services/ac/#Service"
IdPage == "https://x.com/services/ac/#WebContent"
IdMissing == "https://x.com/#Missing"
IdCountry == "https://x.com/#Country"
ExternalIds ==
    {"http://www.wikidata.org/entity/Q30", "https://g.co/kgs/x1",
     "https://www.google.com/maps/place/x"}
IdNearExternal == "https://www.wikidata.org/wiki/Q30"

\* A telephone text: optional "+", a leading digit, n digits in all, an
\* optional dash after the third character, an optional final newline.
PhoneText(plus, lead, n, dashed, nl) ==
    LET ds == <<lead>> \o [i \in 1..(n - 1) |-> "5"]
        body == IF dashed THEN SubSeq(ds, 1, 3) \o <<"-">> \o SubSeq(ds, 4, n) ELSE ds
    IN (IF plus THEN <<"+">> ELSE <<>>) \o body \o (IF nl THEN <<"\n">> ELSE <<>>)

PhoneTexts ==
    {PhoneText(plus, lead, n, sty = "dashed", sty = "newline") :
        plus \in BOOLEAN, lead \in {"1", "4"}, n \in PhoneDigitCounts,
        sty \in {"plain", "dashed", "newline"}}

Prop(key, val) == << <<key, val>> >>
None == <<>>

PhoneSlots ==
    {None, Prop("telephone", EmptyStr), Prop("telephone", JStr("unlisted")),
     Prop("telephone", JNum(5551234))}
    \cup {Prop("telephone", JChars(c)) : c \in PhoneTexts}

ContextSlots ==
    {None, Prop("@context", JList(<<JStr(CANONICAL_CONTEXT)>>))}
    \cup {Prop("@context", JStr(c)) :
             c \in {"", CANONICAL_CONTEXT, "https://example.org"} \cup LEGACY_CONTEXTS}

TypeNames == valid_types \cup DEPRECATED_TYPES \cup {"Fabricated", ""}

TypeSlots ==
    {None, Prop("@type", JList(<<JStr("Organization")>>))}
    \cup {Prop("@type", JStr(t)) : t \in TypeNames}

IdSlots == {None, Prop("@id", EmptyStr), Prop("@id", JStr(IdOrg))}

Ref(id) == JDict(Prop("@id", JStr(id)))

Date(c) == JChars(c)
GoodDate == Date(<<"2", "0", "2", "4", "-", "0", "1", "-", "1", "5">>)
GoodDateTime == Date(<<"2", "0", "2", "4", "-", "0", "1", "-", "1", "5", "T",
                       "1", "0", ":", "0", "0", ":", "0", "0">>)
BadDate == Date(<<"0", "1", "/", "1", "5", "/", "2", "0", "2", "4">>)
ShortDate == Date(<<"2", "0", "2", "4">>)

Country(full) ==
    JDict(Prop("@type", JStr("Country"))
          \o (IF full THEN Prop("name", JStr("United States"))
                           \o Prop("@id", JStr("http://www.wikidata.org/entity/Q30"))
              ELSE None))

Address(typed, countrySlot) ==
    JDict((IF typed THEN Prop("@type", JStr("PostalAddress")) ELSE None)
          \o Prop("streetAddress", JStr("1 Main St")) \o countrySlot)

CountrySlots ==
    {None, Prop("addressCountry", JStr("US")),
     Prop("addressCountry", Country(TRUE)), Prop("addressCountry", Country(FALSE)),
     Prop("addressCountry", JDict(Prop("name", JStr("United States"))))}

AddressSlots ==
    {Prop("address", Address(typed, cs)) : typed \in BOOLEAN, cs \in CountrySlots}
    \cup {Prop("address", JStr("1 Main St"))}

\* One more property on the entity, of each kind a rule looks at.
ExtraSlots ==
    AddressSlots
    \cup {Prop(dp, d) : dp \in {"foundingDate", "datePublished"},
                        d \in {GoodDate, GoodDateTime, BadDate, ShortDate, EmptyStr, JNum(2024)}}
    \cup {Prop(key, JStr("x")) : key \in {"serviceArea", "isBasedOnUrl", "keywords", "logo",
                                           "email", "name"}}
    \cup {Prop("description", JStr(t)) :
             t \in {"plain text", "<script>alert(1)</script>", "<SCRIPT>alert(1)</SCRIPT>"}}

Doc(ctx, type, id, props) == JDict(ctx \o type \o id \o props)

CanonCtx == Prop("@context", JStr(CANONICAL_CONTEXT))
TypeIs(t) == Prop("@type", JStr(t))
IdIs(id) == Prop("@id", JStr(id))

\* Single-entity documents: every context, type and id.
BasicDocs == {Doc(c, t, i, None) : c \in ContextSlots, t \in TypeSlots, i \in IdSlots}

\* Single-entity documents with a telephone, and with a telephone on a
\* typed sub-object.
PhoneDocs ==
    {Doc(c, TypeIs(t), IdIs(IdOrg), ph) :
        c \in {None, CanonCtx}, t \in {"Organization", "Person", "Service"}, ph \in PhoneSlots}
    \cup {Doc(CanonCtx, TypeIs("Person"), IdIs(IdOrg),
              ph1 \o Prop("homeLocation", JDict(TypeIs("Place") \o ph2))) :
             ph1 \in {None, Prop("telephone", JChars(PhoneText(FALSE, "4", 10, TRUE, FALSE)))},
             ph2 \in PhoneSlots}

\* Single-entity documents with one more property.
PropDocs ==
    {Doc(c, TypeIs(t), IdIs(IdOrg), x) :
        c \in {CanonCtx, Prop("@context", JStr("http://schema.org"))},
        t \in {"Organization", "LocalBusiness", "Service", "Person", "WebContent", "Place"},
        x \in ExtraSlots}

\* A Service document with one bare reference to id at a position.
RefAt(pos, ref) ==
    CASE pos = "direct" -> Prop("provider", ref)
      [] pos = "untyped" -> Prop("offers", JDict(Prop("seller", ref)))
      [] pos = "typed" -> Prop("availableChannel",
                               JDict(TypeIs("Place") \o Prop("containedInPlace", ref)))
      [] pos = "typed2" -> Prop("availableChannel",
                                JDict(TypeIs("Place")
                                      \o Prop("geo", JDict(TypeIs("GeoCoordinates")
                                                           \o Prop("addressCountry", ref)))))
      [] pos = "list" -> Prop("isRelatedTo", JList(<<ref>>))
      [] pos = "listdict" -> Prop("isRelatedTo",
                                  JList(<<JDict(TypeIs("Service") \o IdIs(IdSvc)
                                                \o Prop("provider", ref))>>))

RefPositions == {"direct", "untyped", "typed", "typed2", "list", "listdict"}

RefIds == {IdSvc, IdOrg, IdMissing, IdNearExternal} \cup ExternalIds

Registries == {NoRegistry, {}, {IdOrg}}

RefDocs ==
    {Doc(CanonCtx, TypeIs("Service"), IdIs(IdSvc), RefAt(pos, Ref(id))) :
        pos \in RefPositions, id \in RefIds}
    \cup {Doc(CanonCtx, TypeIs("Service"), IdIs(IdSvc), RefAt(pos, r)) :
             pos \in {"direct", "typed"},
             r \in {JDict(Prop("@id", EmptyStr)), JDict(Prop("@id", JNum(7))),
                    JDict(TypeIs("Organization") \o IdIs(IdMissing))}}
    \cup {\* the referenced id is defined by an extracted typed sub-object
          Doc(CanonCtx, TypeIs("Service"), IdIs(IdSvc),
              Prop("areaServed", JDict(TypeIs("Country") \o IdIs(IdCountry)))
              \o Prop("serviceOutput", Ref(IdCountry))),
          \* the referenced id is defined two levels down
          Doc(CanonCtx, TypeIs("Service"), IdIs(IdSvc),
              Prop("availableChannel",
                   JDict(TypeIs("Place")
                         \o Prop("containedInPlace", JDict(TypeIs("Country") \o IdIs(IdCountry)))))
              \o Prop("serviceOutput", Ref(IdCountry)))}

\* Members of a @graph: a WebContent container and a nested Service.
Container(me, extra) ==
    JDict(TypeIs("WebContent") \o IdIs(IdPage) \o me \o extra)

Nested(so, extra) ==
    JDict(TypeIs("Service") \o IdIs(IdSvc) \o so \o extra)

Containers ==
    {Container(me, x) : me \in {None, Prop("mainEntity", Ref(IdSvc)),
                                Prop("mainEntity", Ref(IdMissing))},
                        x \in {None, Prop("provider", Ref(IdOrg))}}

Nesteds ==
    {Nested(so, x) : so \in {None, Prop("subjectOf", Ref(IdPage)),
                             Prop("subjectOf", Ref(IdMissing))},
                     x \in {None, Prop("keywords", JStr("x"))}}

GraphOf(ctx, members) == JDict(ctx \o Prop("@graph", JList(members)))

FixablePhone == JChars(PhoneText(FALSE, "4", 10, TRUE, FALSE))

GraphDocs ==
    {GraphOf(CanonCtx, <<c, n>>) : c \in Containers, n \in Nesteds}
    \cup {GraphOf(ctx, <<n, c>>) :
             ctx \in {None, CanonCtx},
             c \in {Container(None, None), Container(Prop("mainEntity", Ref(IdSvc)), None)},
             n \in {Nested(None, None), Nested(Prop("subjectOf", Ref(IdPage)), None)}}
    \cup {GraphOf(CanonCtx, <<m>>) : m \in Containers \cup Nesteds}
    \cup {GraphOf(ctx, <<JStr("x"),
                         JDict(TypeIs("Organization") \o id \o Prop("telephone", FixablePhone))>>) :
             ctx \in {None, CanonCtx}, id \in {None, IdIs(IdOrg)}}
    \cup {JDict(CanonCtx \o Prop("@graph", g)) : g \in {JNone, EmptyDict, JList(<<>>)}}

\* @graph documents with a third entity of a major type: an Organization
\* member before or after the Service, or a typed Service inside mainEntity.
OrgMember(so) == JDict(TypeIs("Organization") \o IdIs(IdOrg) \o so)

WiringDocs ==
    {GraphOf(CanonCtx, <<Container(Prop("mainEntity", Ref(IdOrg)), None), Nested(None, None), OrgMember(so)>>) :
        so \in {None, Prop("subjectOf", Ref(IdPage))}}
    \cup {GraphOf(CanonCtx, <<Container(Prop("mainEntity", Ref(IdOrg)), None),
                              OrgMember(Prop("subjectOf", Ref(IdPage))), Nested(None, None)>>),
          GraphOf(CanonCtx, <<Container(Prop("mainEntity",
                                             JDict(TypeIs("Service") \o IdIs(IdMissing)
                                                   \o Prop("subjectOf", Ref(IdPage)))), None),
                              Nested(None, None)>>),
          GraphOf(CanonCtx, <<Container(Prop("mainEntity", JStr(IdMissing)), None), Nested(None, None)>>)}

\* A root WebContent without @graph whose nested Service is the typed value
\* of one of its properties.
InlineDocs ==
    {Doc(CanonCtx, TypeIs("WebContent"), IdIs(IdPage), Prop(key, Nested(so, None))) :
        key \in {"mainEntity", "about"},
        so \in {None, Prop("subjectOf", Ref(IdPage)), Prop("subjectOf", Ref(IdMissing))}}

\* @graph documents with an Organization and a second member: a Person or
\* a LocalBusiness, with or without a country on their addresses.
CountryDocs ==
    {GraphOf(CanonCtx, <<JDict(TypeIs("Organization") \o IdIs(IdOrg) \o a1),
                         JDict(TypeIs(t) \o IdIs(IdSvc) \o a2)>>) :
        t \in {"Person", "LocalBusiness"},
        a1 \in {None, Prop("address", Address(TRUE, Prop("addressCountry", Country(TRUE))))},
        a2 \in {None, Prop("address", Address(TRUE, Prop("addressCountry", Country(TRUE)))),
                Prop("address", Address(TRUE, Prop("addressCountry", Country(FALSE))))}}

\* A dict that breaks rules 3, 4, 6, 10 and 11 wherever it is extracted.
Faulty(type) ==
    JDict(TypeIs(type) \o Prop("serviceArea", JStr("x"))
          \o Prop("telephone", JStr("unlisted")) \o Prop("foundingDate", BadDate))

\* Documents with the faulty dict one level down, two levels down and
\* inside an array, at the root and in a member of a @graph.
DeepAt(pos, type) ==
    CASE pos = "child" -> Prop("availableChannel", Faulty(type))
      [] pos = "grandchild" -> Prop("availableChannel",
                                    JDict(TypeIs("Place") \o Prop("geo", Faulty(type))))
      [] pos = "item" -> Prop("isRelatedTo", JList(<<Faulty(type)>>))

DeepDocs ==
    {Doc(CanonCtx, TypeIs("Service"), IdIs(IdSvc), DeepAt(pos, t)) :
        pos \in {"child", "grandchild", "item"}, t \in {"Fabricated", "Person"}}
    \cup {GraphOf(CanonCtx, <<JDict(TypeIs("Service") \o IdIs(IdSvc) \o DeepAt(pos, "Fabricated"))>>) :
             pos \in {"child", "grandchild", "item"}}
    \cup {JDict(CanonCtx \o TypeIs("Service") \o IdIs(IdSvc) \o DeepAt("child", "Fabricated")
                \o Prop("@graph", JList(<<OrgMember(None)>>)))}

\* JSON texts that are not objects.
NonObjects ==
    {JList(<<>>), JList(<<JStr("@graph")>>), JStr("text"), JNum(5), JNone, JBool(TRUE)}

SampleDoc == Doc(CanonCtx, TypeIs("Person"), IdIs(IdOrg), Prop("telephone", FixablePhone))

Inputs ==
    {<<json_dumps(d), {}>> : d \in BasicDocs \cup PhoneDocs \cup PropDocs \cup GraphDocs}
    \cup {<<json_dumps(d), {IdOrg}>> : d \in GraphDocs}
    \cup {<<json_dumps(d), {}>> : d \in WiringDocs \cup InlineDocs \cup CountryDocs \cup DeepDocs}
    \cup {<<json_dumps(d), ids>> : d \in RefDocs, ids \in Registries}
    \cup {<<json_dumps(d), ids>> : d \in NonObjects, ids \in {NoRegistry, {}}}
    \cup {<<RawText(wrap, d), {}>> :
             wrap \in {"script", "truncated"},
             d \in {SampleDoc, Doc(None, None, None, None), JList(<<>>)}}

----------------------------------------------------------------------------
(* The external model, the registration of ids and the wiring pass         *)

\* What the external model answers to one request: a text, or the call
\* fails (anthropic.APIError, any other exception).
TextReply(text) == [kind |-> "text", text |-> text]
ApiError == [kind |-> "api_error", text |-> EmptyText]
OtherError == [kind |-> "exception", text |-> EmptyText]
NoReply == [kind |-> "none", text |-> EmptyText]

\* The markdown fences around a reply are stripped.
StripFences(text) == IF text.wrap = "fenced" THEN RawText("none", text.body) ELSE text

\* generate_jsonld_for_row: (raw_text, "") when the reply parses,
\* (raw_text, error) when it does not, ("", error) when the call failed.
generate_jsonld_for_row(reply) ==
    CASE reply.kind = "api_error" -> [jsonld_str |-> EmptyText, error |-> "API error"]
      [] reply.kind = "exception" -> [jsonld_str |-> EmptyText, error |-> "Unexpected error"]
      [] OTHER ->
           LET raw_text == StripFences(reply.text) IN
           IF json_loads(raw_text).ok
           THEN [jsonld_str |-> raw_text, error |-> ""]
           ELSE [jsonld_str |-> raw_text, error |-> "JSON parse error"]

\* The result appended for a row whose generation gave an error.
ErrorValidation(error) ==
    [status |-> "FAIL", issues |-> <<Issue(0, "FAIL", error, JNone)>>,
     auto_fixes |-> <<>>, parsed |-> JNone]

\* What the loop "for entity in parsed['@graph']" iterates over: the items
\* of a list, the keys of a dict, the characters of a string.
GraphItems(parsed) ==
    LET g == Get(parsed, "@graph", JNone) IN
    CASE g.k = "list" -> g.xs
      [] g.k = "dict" -> [n \in 1..Len(g.p) |-> JStr(g.p[n][1])]
      [] g.k = "str" -> IF g.s = "" THEN <<>> ELSE <<g>>
      [] g.k = "chars" -> [n \in 1..Len(g.c) |-> JStr(g.c[n])]
      [] OTHER -> <<>>

\* An item on which the registration raises: it has no get(), or its @id
\* cannot be a member of a set.
RegistrationFaultAt(item) ==
    \/ ~IsDict(item)
    \/ Truthy(Get(item, "@id", JNone)) /\ ~Hashable(Get(item, "@id", JNone))

\* The items the registration goes through: those of @graph before the
\* first one it raises on, or the root alone when there is no @graph; none
\* when the parsed document is falsy.
RegisteredItems(parsed) ==
    IF ~Truthy(parsed) THEN <<>>
    ELSE IF Has(parsed, "@graph")
    THEN LET items == GraphItems(parsed)
             bad == {n \in 1..Len(items) : RegistrationFaultAt(items[n])}
             upto == IF bad = {} THEN Len(items)
                     ELSE (CHOOSE n \in bad : \A m \in bad : n <= m) - 1
         IN SubSeq(items, 1, upto)
    ELSE IF RegistrationFaultAt(parsed) THEN <<>> ELSE <<parsed>>

\* The registration raises on the document.
RegistrationRaises(parsed) ==
    /\ Truthy(parsed)
    /\ IF Has(parsed, "@graph")
       THEN \/ Get(parsed, "@graph", JNone).k \in {"none", "num", "bool"}
            \/ \E n \in 1..Len(GraphItems(parsed)) : RegistrationFaultAt(GraphItems(parsed)[n])
       ELSE RegistrationFaultAt(parsed)

\* The registration collecting also the ids of the typed sub-objects of
\* the items.
CollectIds_WithNested(parsed) ==
    LET items == RegisteredItems(parsed)
        all == items \o Flatten([n \in 1..Len(items) |->
                                    LET ks == SelectSeq(Keys(items[n]),
                                                        LAMBDA key : /\ IsDict(Get(items[n], key, JNone))
                                                                     /\ Has(Get(items[n], key, JNone), "@type"))
                                    IN [j \in 1..Len(ks) |-> Get(items[n], ks[j], JNone)]])
    IN {Get(all[n], "@id", JNone).s :
           n \in {m \in 1..Len(all) : /\ Truthy(Get(all[m], "@id", JNone))
                                       /\ Get(all[m], "@id", JNone).k = "str"}}

\* The ids added to all_defined_ids for a validated document: the truthy
\* @id of each item gone through.  The ids of the model are strings.
CollectIds(parsed) ==
    LET items == RegisteredItems(parsed) IN
    {Get(items[n], "@id", JNone).s :
        n \in {m \in 1..Len(items) : /\ Truthy(Get(items[m], "@id", JNone))
                                     /\ Get(items[m], "@id", JNone).k = "str"}}

\* graph_wiring_pass taking a reply that is not an array for the one
\* corrected block.
graph_wiring_pass_WrapNonList(all_jsonld_blocks, reply) ==
    IF reply.kind # "text" THEN all_jsonld_blocks
    ELSE LET corrected == json_loads(StripFences(reply.text)) IN
         IF ~corrected.ok THEN all_jsonld_blocks
         ELSE IF IsList(corrected.val) THEN corrected.val.xs
         ELSE <<corrected.val>>

\* graph_wiring_pass: the array of the reply when the reply is a JSON
\* array, the blocks it was given otherwise.
graph_wiring_pass(all_jsonld_blocks, reply) ==
    IF reply.kind # "text" THEN all_jsonld_blocks
    ELSE LET corrected == json_loads(StripFences(reply.text)) IN
         IF ~corrected.ok THEN all_jsonld_blocks
         ELSE IF IsList(corrected.val) THEN corrected.val.xs
         ELSE all_jsonld_blocks

\* The loop of Phase 5 over results[k..]: a result with a truthy parsed
\* document takes the next corrected block while there is one.
RECURSIVE UpdateResults(_, _, _, _)
UpdateResults(rs, k, corrected_blocks, block_idx) ==
    IF k > Len(rs) THEN rs
    ELSE IF Truthy(rs[k].validation.parsed) /\ block_idx <= Len(corrected_blocks)
    THEN UpdateResults([rs EXCEPT ![k].jsonld = json_dumps(corrected_blocks[block_idx]),
                                  ![k].validation.parsed = corrected_blocks[block_idx]],
                       k + 1, corrected_blocks, block_idx + 1)
    ELSE UpdateResults(rs, k + 1, corrected_blocks, block_idx)

----------------------------------------------------------------------------
(* Rows, type inference and the service hierarchy (src/processor.py)       *)

\* A URL is the sequence of its tokens: the origin (scheme and host), then
\* "/" and path segments.  A text without scheme has no origin token.  The
\* empty text is <<>>.
Origin == "https://x.com"
Slash == "/"

\* A CSV cell is a text with or without blanks around it.  The text of a
\* URL cell is a URL, the text of any other cell a string; a missing or
\* empty cell has the empty text.
Cell(pad, v) == [pad |-> pad, v |-> v]

\* v.strip() if v else ""
Strip(cell) == cell.v

\* parse_csv: the cells are stripped and the rows without URL dropped.
parse_csv(content) ==
    LET cleaned == [n \in 1..Len(content) |->
                       [URL |-> Strip(content[n].URL),
                        SchemaType |-> Strip(content[n].SchemaType)]]
    IN SelectSeq(cleaned, LAMBDA row : row.URL # <<>>)

\* row.get(key): the value of the key, None (here "<None>") when the row
\* has no such key.
RowGet(row, key) == IF key \in DOMAIN row THEN row[key] ELSE "<None>"

RowTruthy(v) == v \notin {"<None>", ""}

\* get_url_path: urlparse(url).path
get_url_path(url) ==
    IF url # <<>> /\ url[1] = Origin THEN Tail(url) ELSE url

\* path.rstrip("/")
RECURSIVE RStripSlash(_)
RStripSlash(path) ==
    IF path # <<>> /\ path[Len(path)] = Slash
    THEN RStripSlash(SubSeq(path, 1, Len(path) - 1))
    ELSE path

\* The elements of the patterns: a literal token, [^/]+, .+ and /?
Lit(v) == [t |-> "lit", v |-> v]
Seg == [t |-> "seg", v |-> ""]
AnyText == [t |-> "any", v |-> ""]
OptSlash == [t |-> "optslash", v |-> ""]

\* URL_TYPE_PATTERNS, each pattern between ^ and $.
URL_TYPE_PATTERNS ==
    << <<(<<Lit(Slash)>>), "Organization", "High">>,
       <<(<<Lit(Slash), Lit("about"), OptSlash>>), "AboutPage", "High">>,
       <<(<<Lit(Slash), Lit("about-us"), OptSlash>>), "AboutPage", "High">>,
       <<(<<Lit(Slash), Lit("about"), Lit(Slash), Lit("team"), Lit(Slash), Seg, OptSlash>>),
         "WebContent|Person", "High">>,
       <<(<<Lit(Slash), Lit("team"), Lit(Slash), Seg, OptSlash>>), "WebContent|Person", "High">>,
       <<(<<Lit(Slash), Lit("locations"), Lit(Slash), Seg, OptSlash>>), "LocalBusiness", "High">>,
       <<(<<Lit(Slash), Lit("contact"), Lit(Slash), Seg, OptSlash>>), "LocalBusiness", "High">>,
       <<(<<Lit(Slash), Lit("services"), OptSlash>>), "WebContent|Service", "High">>,
       <<(<<Lit(Slash), Lit("services"), Lit(Slash), AnyText, OptSlash>>), "WebContent|Service", "High">>,
       <<(<<Lit(Slash), Lit("solutions"), Lit(Slash), AnyText, OptSlash>>), "WebContent|Service", "High">>,
       <<(<<Lit(Slash), Lit("blog"), Lit(Slash), AnyText, OptSlash>>), "WebContent", "Medium">>,
       <<(<<Lit(Slash), Lit("news"), Lit(Slash), AnyText, OptSlash>>), "WebContent", "Medium">>,
       <<(<<Lit(Slash), Lit("industries"), Lit(Slash), AnyText, OptSlash>>), "WebContent", "Medium">>,
       <<(<<Lit(Slash), Lit("areas-we-serve"), Lit(Slash), AnyText, OptSlash>>), "WebContent", "Medium">> >>

\* re.match(pattern, path): the pattern from element i on matches the path
\* from token j on, to its end.
RECURSIVE MatchFrom(_, _, _, _)
MatchFrom(pattern, i, path, j) ==
    IF i > Len(pattern) THEN j > Len(path)
    ELSE CASE pattern[i].t = "lit" ->
                /\ j <= Len(path) /\ path[j] = pattern[i].v
                /\ MatchFrom(pattern, i + 1, path, j + 1)
           [] pattern[i].t = "seg" ->
                /\ j <= Len(path) /\ path[j] # Slash
                /\ MatchFrom(pattern, i + 1, path, j + 1)
           [] pattern[i].t = "any" ->
                \E k \in (j + 1)..(Len(path) + 1) : MatchFrom(pattern, i + 1, path, k)
           [] pattern[i].t = "optslash" ->
                \/ MatchFrom(pattern, i + 1, path, j)
                \/ /\ j <= Len(path) /\ path[j] = Slash
                   /\ MatchFrom(pattern, i + 1, path, j + 1)

re_match(pattern, path) == MatchFrom(pattern, 1, path, 1)

\* infer_schema_type matching the path as it stands, without normalizing
\* its trailing slashes.
infer_schema_type_AsIs(url) ==
    LET path == get_url_path(url)
        hits == {n \in 1..Len(URL_TYPE_PATTERNS) : re_match(URL_TYPE_PATTERNS[n][1], path)}
    IN IF path = <<Slash>> THEN <<"Organization", "High">>
       ELSE IF hits # {}
       THEN LET first == CHOOSE n \in hits : \A m \in hits : n <= m
            IN <<URL_TYPE_PATTERNS[first][2], URL_TYPE_PATTERNS[first][3]>>
       ELSE <<"WebContent", "Low">>

\* infer_schema_type: (type, confidence) of the URL.
infer_schema_type(url) ==
    LET path == Append(RStripSlash(get_url_path(url)), Slash)
        hits == {n \in 1..Len(URL_TYPE_PATTERNS) : re_match(URL_TYPE_PATTERNS[n][1], path)}
    IN IF path = <<Slash>> THEN <<"Organization", "High">>
       ELSE IF hits # {}
       THEN LET first == CHOOSE n \in hits : \A m \in hits : n <= m
            IN <<URL_TYPE_PATTERNS[first][2], URL_TYPE_PATTERNS[first][3]>>
       ELSE <<"WebContent", "Low">>

\* The row with its type and confidence set.
Typed(row, type, confidence) ==
    [URL |-> row.URL, SchemaType |-> row.SchemaType,
     _inferred_type |-> type, _type_confidence |-> confidence]

\* assign_types: the override of the row, or the type inferred from its URL.
assign_types(rs) ==
    [n \in 1..Len(rs) |->
        IF RowTruthy(RowGet(rs[n], "SchemaType"))
        THEN Typed(rs[n], rs[n].SchemaType, "Override")
        ELSE Typed(rs[n], infer_schema_type(rs[n].URL)[1], infer_schema_type(rs[n].URL)[2])]

\* VALID_DUAL_TYPES and the keys of INVALID_DUAL_TYPES (src/knowledge.py);
\* no function of the sources reads them.
VALID_DUAL_TYPES ==
    {"WebContent|Service", "WebContent|Person", "WebContent|Organization",
     "WebContent|LocalBusiness"}

INVALID_DUAL_TYPES ==
    {"Service|Service", "Person|Person", "Organization|LocalBusiness",
     "Service|WebContent", "Person|Service"}

\* No URL (None).
NoUrl == <<>>

\* The URLs of the rows typed Service, each once, in row order: the keys of
\* the hierarchy dict.
ServiceUrls(rs) ==
    LET typed == SelectSeq(rs, LAMBDA row : RowGet(row, "_inferred_type") = "Service")
        firsts == SelectSeq([n \in 1..Len(typed) |-> n],
                            LAMBDA n : \A m \in 1..(n - 1) : typed[m].URL # typed[n].URL)
    IN [n \in 1..Len(firsts) |-> typed[firsts[n]].URL]

\* path.strip("/").split("/") without the empty parts
Segments(url) == SelectSeq(get_url_path(url), LAMBDA tok : tok # Slash)

\* The text b starts with the text a, for two tokens.
TokenStartsWith(b, a) == a = b \/ <<a, b>> \in {<<"ac", "acme">>}

\* q.startswith(p) on paths: the tokens of p but the last are tokens of q,
\* and the last token of p starts the token of q at its place.
RECURSIVE PathStartsWith(_, _)
PathStartsWith(q, p) ==
    IF p = <<>> THEN TRUE
    ELSE IF q = <<>> THEN FALSE
    ELSE IF Len(p) = 1 THEN TokenStartsWith(q[1], p[1])
    ELSE p[1] = q[1] /\ PathStartsWith(Tail(q), Tail(p))

\* The test of the first loop: other_url is taken for a parent of url.
IsParentOf(other_url, url) ==
    /\ url # other_url
    /\ Len(Segments(other_url)) = Len(Segments(url)) - 1
    /\ PathStartsWith(get_url_path(url), RStripSlash(get_url_path(other_url)))

\* build_service_hierarchy taking for siblings the URLs of the same depth
\* with the same parent, also when that parent is None.
build_service_hierarchy_TopSiblings(rs) ==
    LET urls == ServiceUrls(rs)
        parent(url) == LET ps == SelectSeq(urls, LAMBDA o : IsParentOf(o, url))
                       IN IF ps = <<>> THEN NoUrl ELSE ps[Len(ps)]
    IN [n \in 1..Len(urls) |->
           [url |-> urls[n],
            segments |-> Segments(urls[n]),
            depth |-> Len(Segments(urls[n])),
            parent |-> parent(urls[n]),
            children |-> SelectSeq(urls, LAMBDA u : IsParentOf(urls[n], u)),
            siblings |-> SelectSeq(urls, LAMBDA o : /\ o # urls[n]
                                                    /\ parent(urls[n]) = parent(o)
                                                    /\ Len(Segments(o)) = Len(Segments(urls[n])))]]

\* build_service_hierarchy: one entry per service URL.  The first loop
\* assigns parent at every URL that passes the test, so the last one
\* stays, and appends the URL to the children of each of them; the second
\* loop collects the siblings.
build_service_hierarchy(rs) ==
    LET urls == ServiceUrls(rs)
        parent(url) == LET ps == SelectSeq(urls, LAMBDA o : IsParentOf(o, url))
                       IN IF ps = <<>> THEN NoUrl ELSE ps[Len(ps)]
    IN [n \in 1..Len(urls) |->
           [url |-> urls[n],
            segments |-> Segments(urls[n]),
            depth |-> Len(Segments(urls[n])),
            parent |-> parent(urls[n]),
            children |-> SelectSeq(urls, LAMBDA u : IsParentOf(urls[n], u)),
            siblings |-> SelectSeq(urls, LAMBDA o : /\ o # urls[n]
                                                    /\ parent(urls[n]) # NoUrl
                                                    /\ parent(urls[n]) = parent(o)
                                                    /\ Len(Segments(o)) = Len(Segments(urls[n])))]]

\* generate_validation_report: the totals, the line of each row, the table
\* of the dual-type rows and the ledger of the auto-fixes.  The time of the
\* run is left out.
generate_validation_report(rs_results, rs) ==
    LET CountStatus(st) == Cardinality({n \in 1..Len(rs_results) : rs_results[n].status = st})
        total == Len(rs_results)
        dual_count == Cardinality({n \in 1..Len(rs) : RowTruthy(RowGet(rs[n], "_is_dual"))})
        both == IF Len(rs) < Len(rs_results) THEN Len(rs) ELSE Len(rs_results)
        dual_rows == SelectSeq([n \in 1..both |-> rs[n]],
                               LAMBDA row : RowTruthy(RowGet(row, "_is_dual")))
    IN [total |-> total,
        passed |-> CountStatus("PASS"),
        warned |-> CountStatus("WARN"),
        failed |-> CountStatus("FAIL"),
        single_count |-> total - dual_count,
        dual_count |-> dual_count,
        summary |-> [n \in 1..both |->
                        [url |-> rs[n].URL, stype |-> RowGet(rs[n], "_inferred_type"),
                         status |-> rs_results[n].status, issues |-> rs_results[n].issues]],
        dual_table |-> [n \in 1..Len(dual_rows) |->
                           [url |-> dual_rows[n].URL,
                            container |-> RowGet(dual_rows[n], "_container_type"),
                            nested |-> RowGet(dual_rows[n], "_nested_type"),
                            source |-> RowGet(dual_rows[n], "_type_confidence")]],
        fixes |-> Flatten([n \in 1..Len(rs_results) |->
                              [a \in 1..Len(rs_results[n].auto_fixes) |->
                                  <<rs[n].URL, rs_results[n].auto_fixes[a]>>]])]

NoReport ==
    [total |-> 0, passed |-> 0, warned |-> 0, failed |-> 0, single_count |-> 0,
     dual_count |-> 0, summary |-> <<>>, dual_table |-> <<>>, fixes |-> <<>>]

----------------------------------------------------------------------------
(* The call, step by step                                                  *)

Init ==
    /\ \E inp \in Inputs : raw_json = inp[1] /\ all_defined_ids = inp[2]
    /\ pc = "rule1"
    /\ frame = InitFrame
    /\ result = NoResult
    /\ rerun = NoResult
    /\ replies = <<>> /\ row_idx = 0 /\ results = <<>> /\ jsonld_blocks = <<>>
    /\ run_graph_wiring = FALSE /\ calls = <<>> /\ wiring = NoReply
    /\ file_content = <<>> /\ rows = <<>> /\ hierarchy = <<>>
    /\ val_results = <<>> /\ report = NoReport

\* Control leaves a step for the next one, for the return statement or
\* with an exception.
Goto(next) ==
    /\ pc' = CASE frame'.status = "running" -> next
               [] frame'.status = "returning" -> "return"
               [] frame'.status = "raised" -> "raised"
    /\ result' = IF frame'.status = "raised" THEN Raised ELSE result
    /\ UNCHANGED <<raw_json, all_defined_ids, rerun>>
    /\ UNCHANGED <<batchVars, procVars>>

\* Rule 13 merging the local ids into the registry it was given
\* (all_defined_ids |= local_ids) instead of into a set of its own.
DoRule13_InPlace ==
    /\ pc = "rule13"
    /\ frame' = Rule13(frame, all_defined_ids)
    /\ pc' = CASE frame'.status = "running" -> "rule16"
               [] frame'.status = "returning" -> "return"
               [] frame'.status = "raised" -> "raised"
    /\ result' = IF frame'.status = "raised" THEN Raised ELSE result
    /\ all_defined_ids' =
          IF all_defined_ids = NoRegistry THEN all_defined_ids
          ELSE all_defined_ids \cup {id.s : id \in {x \in LocalIds(frame) : x.k = "str"}}
    /\ UNCHANGED <<raw_json, rerun>>
    /\ UNCHANGED <<batchVars, procVars>>

DoRule1 == pc = "rule1" /\ frame' = Rule1(frame, raw_json) /\ Goto("extract")
DoExtract == pc = "extract" /\ frame' = Extract(frame) /\ Goto("rule2")
DoRule2 == pc = "rule2" /\ frame' = Rule2(frame) /\ Goto("rule3")
DoRule3 == pc = "rule3" /\ frame' = Rule3(frame) /\ Goto("rule4")
DoRule4 == pc = "rule4" /\ frame' = Rule4(frame) /\ Goto("rule5")
DoRule5 == pc = "rule5" /\ frame' = Rule5(frame) /\ Goto("rule6")
DoRule6 == pc = "rule6" /\ frame' = Rule6(frame) /\ Goto("rule7")
DoRule7 == pc = "rule7" /\ frame' = Rule7(frame) /\ Goto("rule9")
DoRule9 == pc = "rule9" /\ frame' = Rule9(frame) /\ Goto("rule10")
DoRule10 == pc = "rule10" /\ frame' = Rule10(frame) /\ Goto("rule11")
DoRule11 == pc = "rule11" /\ frame' = Rule11(frame) /\ Goto("rule12")
DoRule12 == pc = "rule12" /\ frame' = Rule12(frame, raw_json) /\ Goto("rule13")
DoRule13 == pc = "rule13" /\ frame' = Rule13(frame, all_defined_ids) /\ Goto("rule16")
DoRule16 == pc = "rule16" /\ frame' = Rule16(frame) /\ Goto("return")

\* return _result(issues, auto_fixes, parsed)
Return ==
    /\ pc = "return"
    /\ result' = Outcome(frame)
    /\ pc' = "returned"
    /\ UNCHANGED <<raw_json, all_defined_ids, frame, rerun>>
    /\ UNCHANGED <<batchVars, procVars>>

\* The returned document is serialized and validated again.
Revalidate ==
    /\ pc = "returned"
    /\ result.parsed # JNone
    /\ rerun' = validate_jsonld(json_dumps(result.parsed), all_defined_ids)
    /\ pc' = "revalidated"
    /\ UNCHANGED <<raw_json, all_defined_ids, frame, result>>
    /\ UNCHANGED <<batchVars, procVars>>

Next ==
    \/ DoRule1 \/ DoExtract \/ DoRule2 \/ DoRule3 \/ DoRule4 \/ DoRule5 \/ DoRule6
    \/ DoRule7 \/ DoRule9 \/ DoRule10 \/ DoRule11 \/ DoRule12 \/ DoRule13 \/ DoRule16
    \/ Return \/ Revalidate

Spec == Init /\ [][Next]_vars

----------------------------------------------------------------------------
(* The batch run: Phase 4 (one document per row) and Phase 5 (wiring)      *)

MaxRows == 3

IdPlace == "https://x.com/#Place"

\* The documents the external model may draft for a row.
BatchOrg == Doc(CanonCtx, TypeIs("Organization"), IdIs(IdOrg), Prop("makesOffer", Ref(IdSvc)))

BatchService ==
    Doc(CanonCtx, TypeIs("Service"), IdIs(IdSvc),
        Prop("provider", Ref(IdOrg)) \o Prop("isRelatedTo", JList(<<Ref(IdPage)>>)))

BatchGraph ==
    JDict(CanonCtx \o IdIs(IdMissing)
          \o Prop("@graph",
                  JList(<<Container(Prop("mainEntity", Ref(IdSvc)),
                                    Prop("about", JDict(TypeIs("Place") \o IdIs(IdPlace))))>>)))

BatchPlace ==
    Doc(None, TypeIs("Place"), Prop("@id", EmptyStr), Prop("containedInPlace", Ref(IdPlace)))

BatchGraphText ==
    GraphOf(CanonCtx, <<JDict(TypeIs("Organization") \o IdIs(IdOrg)), JStr("x")>>)

BatchDocs == {BatchOrg, BatchService, BatchGraph, BatchPlace, EmptyDict, JList(<<>>), BatchGraphText}

Replies ==
    {TextReply(json_dumps(d)) : d \in BatchDocs}
    \cup {TextReply(RawText("fenced", BatchOrg)), TextReply(RawText("truncated", BatchOrg)),
          ApiError, OtherError}

ReplySeqs == UNION {[1..n -> Replies] : n \in 1..MaxRows}

\* What the external model may answer to the wiring pass over the blocks.
Rewired(block) == Put(block, "sameAs", JStr("https://x.com/"))
Untyped(block) == JDict(SelectSeq(block.p, LAMBDA pr : pr[1] # "@type"))

WiringReplies(blocks) ==
    {ApiError,
     TextReply(RawText("truncated", JList(blocks))),
     TextReply(json_dumps(blocks[1])),
     TextReply(json_dumps(JList(blocks))),
     TextReply(RawText("fenced", JList([n \in 1..Len(blocks) |-> Rewired(blocks[n])]))),
     TextReply(json_dumps(JList([n \in 1..Len(blocks) |-> Untyped(blocks[n])]))),
     TextReply(json_dumps(JList(<<Rewired(blocks[1])>>))),
     TextReply(json_dumps(JList(Append(blocks, BatchOrg)))),
     TextReply(json_dumps(JList(<<>>)))}

BatchInit ==
    /\ replies \in ReplySeqs
    /\ run_graph_wiring \in BOOLEAN
    /\ row_idx = 1
    /\ results = <<>>
    /\ jsonld_blocks = <<>>
    /\ all_defined_ids = {}
    /\ calls = <<>>
    /\ wiring = NoReply
    /\ pc = "phase4"
    /\ raw_json = EmptyText /\ frame = InitFrame /\ result = NoResult /\ rerun = NoResult
    /\ file_content = <<>> /\ rows = <<>> /\ hierarchy = <<>>
    /\ val_results = <<>> /\ report = NoReport

\* The turn for an error row handing the text to validate_jsonld all the
\* same, which rejects it under rule 1.
RowError_Validates ==
    /\ pc = "phase4" /\ row_idx <= Len(replies)
    /\ LET g == generate_jsonld_for_row(replies[row_idx]) IN
       /\ g.error # ""
       /\ results' = Append(results, [row |-> row_idx, jsonld |-> g.jsonld_str, error |-> g.error,
                                      validation |-> validate_jsonld(g.jsonld_str, all_defined_ids)])
       /\ calls' = Append(calls, [row |-> row_idx, ids |-> all_defined_ids])
    /\ row_idx' = row_idx + 1
    /\ UNCHANGED <<pc, all_defined_ids, jsonld_blocks, replies, run_graph_wiring, wiring>>
    /\ UNCHANGED <<valVars, procVars>>

\* One turn of the loop, for a row whose generation gave an error.
RowError ==
    /\ pc = "phase4" /\ row_idx <= Len(replies)
    /\ LET g == generate_jsonld_for_row(replies[row_idx]) IN
       /\ g.error # ""
       /\ results' = Append(results, [row |-> row_idx, jsonld |-> g.jsonld_str, error |-> g.error,
                                      validation |-> ErrorValidation(g.error)])
    /\ row_idx' = row_idx + 1
    /\ UNCHANGED <<pc, all_defined_ids, jsonld_blocks, calls, replies, run_graph_wiring, wiring>>
    /\ UNCHANGED <<valVars, procVars>>

\* One turn of the loop, for a row whose generation gave a document: it is
\* validated against the registry, its ids are registered, its result and
\* its block are appended.  An exception of validate_jsonld or of the
\* registration ends the run.
RowValidated ==
    /\ pc = "phase4" /\ row_idx <= Len(replies)
    /\ LET g == generate_jsonld_for_row(replies[row_idx])
           validation == validate_jsonld(g.jsonld_str, all_defined_ids)
       IN /\ g.error = ""
          /\ calls' = Append(calls, [row |-> row_idx, ids |-> all_defined_ids])
          /\ all_defined_ids' = all_defined_ids \cup CollectIds(validation.parsed)
          /\ IF validation = Raised \/ RegistrationRaises(validation.parsed)
             THEN /\ pc' = "crashed"
                  /\ UNCHANGED <<results, jsonld_blocks, row_idx>>
             ELSE /\ results' = Append(results, [row |-> row_idx, jsonld |-> g.jsonld_str,
                                                 error |-> "", validation |-> validation])
                  /\ jsonld_blocks' = IF Truthy(validation.parsed)
                                      THEN Append(jsonld_blocks, validation.parsed)
                                      ELSE jsonld_blocks
                  /\ row_idx' = row_idx + 1
                  /\ pc' = pc
    /\ UNCHANGED <<replies, run_graph_wiring, wiring>>
    /\ UNCHANGED <<valVars, procVars>>

\* The loop is over.
EndPhase4 ==
    /\ pc = "phase4" /\ row_idx > Len(replies)
    /\ pc' = "phase5"
    /\ UNCHANGED <<all_defined_ids, replies, row_idx, results, jsonld_blocks,
                   run_graph_wiring, calls, wiring>>
    /\ UNCHANGED <<valVars, procVars>>

\* Phase 5 is skipped: the wiring pass is off or there is no block.
SkipWiring ==
    /\ pc = "phase5"
    /\ ~(run_graph_wiring /\ jsonld_blocks # <<>>)
    /\ pc' = "done"
    /\ UNCHANGED <<all_defined_ids, replies, row_idx, results, jsonld_blocks,
                   run_graph_wiring, calls, wiring>>
    /\ UNCHANGED <<valVars, procVars>>

\* Phase 5 pairing the results with the corrected blocks by position
\* (zip(results, corrected_blocks)), whether the result has a document or not.
GraphWiring_ByPosition ==
    /\ pc = "phase5"
    /\ run_graph_wiring /\ jsonld_blocks # <<>>
    /\ \E reply \in WiringReplies(jsonld_blocks) :
          LET corrected_blocks == graph_wiring_pass(jsonld_blocks, reply) IN
          /\ wiring' = reply
          /\ results' = [n \in 1..Len(results) |->
                            IF n <= Len(corrected_blocks)
                            THEN [results[n] EXCEPT !.jsonld = json_dumps(corrected_blocks[n]),
                                                    !.validation.parsed = corrected_blocks[n]]
                            ELSE results[n]]
    /\ pc' = "done"
    /\ UNCHANGED <<all_defined_ids, replies, row_idx, jsonld_blocks, run_graph_wiring, calls>>
    /\ UNCHANGED <<valVars, procVars>>

\* Phase 5: the blocks go through graph_wiring_pass and the results take
\* the corrected blocks.
GraphWiring ==
    /\ pc = "phase5"
    /\ run_graph_wiring /\ jsonld_blocks # <<>>
    /\ \E reply \in WiringReplies(jsonld_blocks) :
          /\ wiring' = reply
          /\ results' = UpdateResults(results, 1, graph_wiring_pass(jsonld_blocks, reply), 1)
    /\ pc' = "done"
    /\ UNCHANGED <<all_defined_ids, replies, row_idx, jsonld_blocks, run_graph_wiring, calls>>
    /\ UNCHANGED <<valVars, procVars>>

BatchNext == RowError \/ RowValidated \/ EndPhase4 \/ SkipWiring \/ GraphWiring

BatchSpec == BatchInit /\ [][BatchNext]_vars

----------------------------------------------------------------------------
(* Row preparation and the report: parse_csv, assign_types,                *)
(* build_service_hierarchy, generate_validation_report                     *)

MaxCsvRows == 3

Url(path) == <<Origin>> \o path

\* The paths of the URLs: the conventions of the patterns with and without
\* trailing slashes, deeper and shorter variants, and paths no pattern
\* knows.
UrlPaths ==
    {<<>>, <<Slash>>, <<Slash, Slash>>,
     <<Slash, "about">>, <<Slash, "about", Slash>>, <<Slash, "about-us", Slash>>,
     <<Slash, "about", Slash, "team", Slash, "jane", Slash>>,
     <<Slash, "about", Slash, "history", Slash>>,
     <<Slash, "team", Slash, "jane">>, <<Slash, "team", Slash, "jane", Slash>>,
     <<Slash, "team", Slash, "jane", Slash, Slash>>,
     <<Slash, "team", Slash, "jane", Slash, "bio", Slash>>,
     <<Slash, "team", Slash, Slash, "jane", Slash>>,
     <<Slash, "team", Slash>>,
     <<Slash, "locations", Slash, "atlanta", Slash>>, <<Slash, "contact", Slash, "atlanta">>,
     <<Slash, "contact", Slash>>,
     <<Slash, "services">>, <<Slash, "services", Slash>>,
     <<Slash, "services", Slash, "ac", Slash>>,
     <<Slash, "services", Slash, "ac", Slash, "repair", Slash>>,
     <<Slash, "services", Slash, Slash, "ac">>,
     <<Slash, "solutions", Slash, "ac", Slash>>, <<Slash, "solutions", Slash>>,
     <<Slash, "blog", Slash, "post", Slash>>, <<Slash, "blog", Slash>>,
     <<Slash, "news", Slash, "post">>, <<Slash, "industries", Slash, "retail", Slash>>,
     <<Slash, "areas-we-serve", Slash, "atlanta", Slash>>,
     <<Slash, "random", Slash, "page", Slash>>, <<Slash, "About", Slash>>}

Urls == {Url(path) : path \in UrlPaths} \cup {<<"x.com", Slash, "team", Slash, "jane">>}

Overrides ==
    {"", "Service", "FAQPage", "WebContent|Service", "WebContent|Person",
     "Service|Service", "Service|WebContent", "Organization|LocalBusiness", "WebContent|Article"}

CsvRow(url, override) == [URL |-> url, SchemaType |-> override]

\* Rows of services one under the other, with and without override.
ServiceRows ==
    {CsvRow(Cell(FALSE, Url(path)), Cell(FALSE, "Service")) :
        path \in {<<Slash, "services", Slash>>,
                  <<Slash, "services", Slash, "ac", Slash>>,
                  <<Slash, "services", Slash, "ac">>,
                  <<Slash, "services", Slash, "ac", Slash, "repair", Slash>>,
                  <<Slash, "services", Slash, "acme", Slash, "x", Slash>>,
                  <<Slash, "services", Slash, "heating", Slash>>,
                  <<Slash, "solutions", Slash>>}}
    \cup {CsvRow(Cell(FALSE, Url(<<Slash, "services", Slash, "ac", Slash>>)), Cell(FALSE, "")),
          CsvRow(Cell(FALSE, Url(<<Slash>>)), Cell(FALSE, ""))}

CsvFiles ==
    {<<CsvRow(Cell(pad, url), Cell(pad, override))>> :
        pad \in BOOLEAN, url \in Urls, override \in Overrides}
    \cup {<<CsvRow(Cell(pad, <<>>), Cell(FALSE, "Service"))>> : pad \in BOOLEAN}
    \cup UNION {[1..n -> ServiceRows] : n \in 2..MaxCsvRows}

\* Validation results a row may have got.
SampleResults ==
    {_result(<<>>, <<>>, EmptyDict),
     _result(<<Issue(9, "WARN", "addressCountry", JNone)>>,
             <<AutoFix("Fixed @context to https://schema.org", JNone)>>, EmptyDict),
     ErrorValidation("API error")}

ProcInit ==
    /\ file_content \in CsvFiles
    /\ rows = <<>> /\ hierarchy = <<>> /\ val_results = <<>> /\ report = NoReport
    /\ pc = "parse"
    /\ all_defined_ids = {}
    /\ raw_json = EmptyText /\ frame = InitFrame /\ result = NoResult /\ rerun = NoResult
    /\ replies = <<>> /\ row_idx = 0 /\ results = <<>> /\ jsonld_blocks = <<>>
    /\ run_graph_wiring = FALSE /\ calls = <<>> /\ wiring = NoReply

ProcFrame == UNCHANGED <<all_defined_ids, file_content>> /\ UNCHANGED <<valVars, batchVars>>

\* rows = parse_csv(raw_content); the run stops when no row is left.
ParseCsv ==
    /\ pc = "parse"
    /\ rows' = parse_csv(file_content)
    /\ pc' = IF rows' = <<>> THEN "stopped" ELSE "assign"
    /\ UNCHANGED <<hierarchy, val_results, report>>
    /\ ProcFrame

\* rows = assign_types(rows)
AssignTypes ==
    /\ pc = "assign"
    /\ rows' = assign_types(rows)
    /\ pc' = "hierarchy"
    /\ UNCHANGED <<hierarchy, val_results, report>>
    /\ ProcFrame

\* hierarchy = build_service_hierarchy(rows)
BuildHierarchy ==
    /\ pc = "hierarchy"
    /\ hierarchy' = build_service_hierarchy(rows)
    /\ pc' = "report"
    /\ UNCHANGED <<rows, val_results, report>>
    /\ ProcFrame

\* report = generate_validation_report(val_results, rows), with one result
\* per row.
BuildReport ==
    /\ pc = "report"
    /\ \E rs \in [1..Len(rows) -> SampleResults] :
          /\ val_results' = rs
          /\ report' = generate_validation_report(rs, rows)
    /\ pc' = "reported"
    /\ UNCHANGED <<rows, hierarchy>>
    /\ ProcFrame

ProcNext == ParseCsv \/ AssignTypes \/ BuildHierarchy \/ BuildReport

ProcSpec == ProcInit /\ [][ProcNext]_vars

----------------------------------------------------------------------------
(* What the claims speak of                                                *)

\* The input document, when the raw text parses.
InputDoc == raw_json.body
InputParses == json_loads(raw_json).ok

Finished == pc \in {"returned", "revalidated"}

IssuesOf(r, rule) == SelectSeq(r.issues, LAMBDA i : i.rule = rule)
NumIssues(r, rule) == Len(IssuesOf(r, rule))

HasSeverity(r, sev) == \E i \in 1..Len(r.issues) : r.issues[i].sev = sev

ContextFixes(r) == SelectSeq(r.auto_fixes, LAMBDA a : a.text = "Fixed @context to https://schema.org")
PhoneFixes(r) == SelectSeq(r.auto_fixes, LAMBDA a : a.text = "Auto-fixed phone to E.164")

\* C1: the status of every returned result is FAIL iff some issue is FAIL,
\* else WARN iff some issue is WARN, else PASS.
StatusIsReduction(r) ==
    /\ r.status = "FAIL" <=> HasSeverity(r, "FAIL")
    /\ r.status = "WARN" <=> (~HasSeverity(r, "FAIL") /\ HasSeverity(r, "WARN"))
    /\ r.status = "PASS" <=> (~HasSeverity(r, "FAIL") /\ ~HasSeverity(r, "WARN"))

C1_StatusReduction ==
    /\ IsReturned(result) => StatusIsReduction(result)
    /\ IsReturned(rerun) => StatusIsReduction(rerun)

\* Results with both a FAIL and a WARN issue were returned.
C1_Witness ==
    /\ pc = "revalidated"
    /\ result.status = "FAIL" /\ HasSeverity(result, "WARN")
    /\ rerun.status = "FAIL" /\ HasSeverity(rerun, "WARN")

\* C2: a raw text that does not parse gives, without any further rule, the
\* result FAIL with the rule 1 FAIL as only issue, no auto-fix and no
\* parsed document.
C2_ParseFailureShortCircuits ==
    (~InputParses /\ pc # "rule1") =>
        /\ pc \in {"return", "returned"}
        /\ frame.evaluated = {1}
        /\ pc = "returned" =>
              /\ result.status = "FAIL"
              /\ Len(result.issues) = 1
              /\ result.issues[1].rule = 1
              /\ result.issues[1].sev = "FAIL"
              /\ result.auto_fixes = <<>>
              /\ result.parsed = JNone

\* A text wrapped in script tags has been rejected.
C2_Witness ==
    /\ pc = "returned"
    /\ raw_json.wrap = "script"
    /\ result.status = "FAIL"

\* C3: a raw text that parses to something other than an object gives the
\* result FAIL with the rule 1 FAIL as only issue and no parsed document.
C3_NonObjectIsRule1Fail ==
    (InputParses /\ ~IsDict(InputDoc) /\ pc \in {"returned", "raised"}) =>
        /\ result.status = "FAIL"
        /\ Len(result.issues) = 1
        /\ result.issues[1].rule = 1
        /\ result.issues[1].sev = "FAIL"
        /\ result.parsed = JNone

\* The rules a call that returns a parsed document has run: rule 13 needs
\* a registry.
RulesToRun(ids) ==
    {1, 2, 3, 4, 5, 6, 7, 9, 10, 11, 12, 16} \cup (IF ids = NoRegistry THEN {} ELSE {13})

\* The top-level entities of a document: the dict members of @graph or
\* the root.
TopOf(doc) ==
    IF Has(doc, "@graph")
    THEN LET g == Get(doc, "@graph", JNone) IN
         IF IsList(g) THEN SelectSeq(g.xs, IsDict) ELSE <<>>
    ELSE <<doc>>

InputTop == TopOf(InputDoc)

StringPhone(e) == IsString(Get(e, "telephone", JNone)) /\ Truthy(Get(e, "telephone", JNone))

\* The telephone of e has ten digits and is not in E.164 form.
TenDigitPhone(e) ==
    /\ StringPhone(e)
    /\ ~IsE164(CharsOf(Get(e, "telephone", JNone)))
    /\ Len(StripNonDigits(CharsOf(Get(e, "telephone", JNone)))) = 10
    /\ CharsOf(Get(e, "telephone", JNone))[Len(CharsOf(Get(e, "telephone", JNone)))] # "\n"

\* "+1" and the digits of the telephone of e.
PlusOne(e) == JChars(<<"+", "1">> \o StripNonDigits(CharsOf(Get(e, "telephone", JNone))))

\* C4: a call that returns a parsed document has run every rule (rule 13
\* when a registry was passed), whatever was recorded on the way; and the
\* ten-digit telephone of a top-level entity is rewritten, with its
\* auto-fix recorded, also when rules 2 to 6 recorded a FAIL.
C4_AllRulesRun ==
    /\ (pc \in {"return", "returned"} /\ frame.parsed # JNone) =>
          frame.evaluated = RulesToRun(all_defined_ids)
    /\ (pc = "returned" /\ result.parsed # JNone) =>
          \A j \in 1..Len(InputTop) :
             TenDigitPhone(InputTop[j]) =>
                /\ Get(TopOf(result.parsed)[j], "telephone", JNone) = PlusOne(InputTop[j])
                /\ \E i \in 1..Len(result.auto_fixes) :
                      result.auto_fixes[i] = AutoFix("Auto-fixed phone to E.164", PlusOne(InputTop[j]))

\* A document without @context whose ten-digit telephone was rewritten.
C4_Witness ==
    /\ pc = "returned"
    /\ InputParses /\ IsDict(InputDoc)
    /\ ~Has(InputDoc, "@context")
    /\ \E j \in 1..Len(InputTop) : TenDigitPhone(InputTop[j])
    /\ NumIssues(result, 2) = 1
    /\ NumIssues(result, 4) = 1
    /\ Len(PhoneFixes(result)) = 1
    /\ result.status = "FAIL"

\* The typed dict-valued properties of the dict e.
SubObjects(e) ==
    LET ks == SelectSeq(Keys(e), LAMBDA key : /\ IsDict(Get(e, key, JNone))
                                              /\ Has(Get(e, key, JNone), "@type"))
    IN [i \in 1..Len(ks) |-> Get(e, ks[i], JNone)]

\* A date (YYYY-MM-DD) or a date-time (YYYY-MM-DDThh:mm:ss).
IsIsoDate(c) ==
    /\ Len(c) \in {10, 19}
    /\ \A i \in {1, 2, 3, 4, 6, 7, 9, 10} : IsDigit(c[i])
    /\ c[5] = "-" /\ c[8] = "-"
    /\ Len(c) = 19 => /\ c[11] = "T" /\ c[14] = ":" /\ c[17] = ":"
                      /\ \A i \in {12, 13, 15, 16, 18, 19} : IsDigit(c[i])

WellFormedPhone(e) ==
    Has(e, "telephone") =>
        /\ Get(e, "telephone", JNone).k = "chars"
        /\ IsE164(Get(e, "telephone", JNone).c)

WellFormedDates(e) ==
    \A i \in 1..Len(date_props) :
        Has(e, date_props[i]) =>
            /\ Get(e, date_props[i], JNone).k = "chars"
            /\ IsIsoDate(Get(e, date_props[i], JNone).c)

NoDeprecatedProperty(e) == \A i \in 1..Len(e.p) : e.p[i][1] \notin DEPRECATED_PROPERTIES

\* The document of the claim: a single entity with the canonical context,
\* an allowed type, no deprecated property, an id, and well-formed
\* telephone and dates.
ValidSingleEntity(doc) ==
    /\ IsDict(doc)
    /\ ~Has(doc, "@graph")
    /\ EqLit(Get(doc, "@context", JNone), CANONICAL_CONTEXT)
    /\ InLits(Get(doc, "@type", JNone), valid_types \ DEPRECATED_TYPES)
    /\ NoDeprecatedProperty(doc)
    /\ IsString(Get(doc, "@id", JNone)) /\ Truthy(Get(doc, "@id", JNone))
    /\ WellFormedPhone(doc)
    /\ WellFormedDates(doc)

\* C5 as stated: every valid single-entity document gets PASS with no
\* issue, whatever its type.
C5_ValidSinglePasses ==
    (pc = "returned" /\ InputParses /\ ValidSingleEntity(InputDoc)) =>
        /\ result.status = "PASS"
        /\ result.issues = <<>>

\* The @id values of the bare references (dicts with an @id and no @type)
\* that occur in v as a property value or as an element of an array, at
\* any depth.
RECURSIVE BareRefsIn(_)
BareRefsIn(v) ==
    LET Of(x) == IF IsDict(x)
                 THEN (IF IsBareRef(x) THEN <<Get(x, "@id", JNone)>> ELSE <<>>) \o BareRefsIn(x)
                 ELSE BareRefsIn(x)
    IN CASE v.k = "dict" -> Flatten([i \in 1..Len(v.p) |-> Of(v.p[i][2])])
         [] v.k = "list" -> Flatten([i \in 1..Len(v.xs) |-> Of(v.xs[i])])
         [] OTHER -> <<>>

\* The entities of a document and the ids they define.
EntitiesOf(doc) == TopOf(doc) \o Flatten([j \in 1..Len(TopOf(doc)) |-> SubObjects(TopOf(doc)[j])])

DefinedIds(doc) ==
    {Get(EntitiesOf(doc)[j], "@id", JNone) :
        j \in {i \in 1..Len(EntitiesOf(doc)) : Truthy(Get(EntitiesOf(doc)[i], "@id", JNone))}}

\* The id is defined in the document, registered, or an external URI.
Resolves(id, doc, ids) ==
    \/ id \in DefinedIds(doc)
    \/ id.k = "str" /\ id.s \in ids
    \/ id.k = "str" /\ id.s \in ExternalIds

AllRefsResolve(doc, ids) ==
    \A i \in 1..Len(BareRefsIn(doc)) :
        IsString(BareRefsIn(doc)[i]) /\ Resolves(BareRefsIn(doc)[i], doc, ids)

IsOrgKind(e) == InLits(Get(e, "@type", JNone), {"Organization", "LocalBusiness"})

CountryTyped(e) ==
    /\ IsDict(Get(e, "address", JNone))
    /\ IsDict(Get(Get(e, "address", JNone), "addressCountry", JNone))
    /\ EqLit(Get(Get(Get(e, "address", JNone), "addressCountry", JNone), "@type", JNone), "Country")

\* What rules 3 to 7, 10 and 11 ask of an entity.
CleanEntity(e) ==
    /\ InLits(Get(e, "@type", JNone), valid_types \ DEPRECATED_TYPES)
    /\ NoDeprecatedProperty(e)
    /\ \A i \in 1..Len(e.p) : e.p[i][1] \notin INVALID_PROPERTIES(Get(e, "@type", JNone).s)
    /\ Has(e, "@id") => IsString(Get(e, "@id", JNone))
    /\ InLits(Get(e, "@type", JNone), major_types) => Truthy(Get(e, "@id", JNone))
    /\ WellFormedPhone(e)
    /\ WellFormedDates(e)

\* C5 amended: a valid single-entity document gets PASS with no issue when
\* in addition the root and its typed sub-objects have no property that is
\* forbidden for their type and ask nothing of rules 3 to 7, 10 and 11, the
\* text has no script tag, every bare reference resolves, and - when the
\* root or a sub-object is an Organization or LocalBusiness - one of them
\* has an address whose addressCountry is an object of @type Country.
C5_CleanSinglePasses ==
    (/\ pc \in {"returned", "raised"}
     /\ InputParses
     /\ ValidSingleEntity(InputDoc)
     /\ \A j \in 1..Len(EntitiesOf(InputDoc)) : CleanEntity(EntitiesOf(InputDoc)[j])
     /\ ~ContainsScriptTag(raw_json)
     /\ AllRefsResolve(InputDoc, all_defined_ids)
     /\ (\E j \in 1..Len(EntitiesOf(InputDoc)) : IsOrgKind(EntitiesOf(InputDoc)[j]))
           => \E j \in 1..Len(EntitiesOf(InputDoc)) : CountryTyped(EntitiesOf(InputDoc)[j]))
    => /\ result.status = "PASS"
       /\ result.issues = <<>>

\* An Organization with a typed country on its address has passed.
C5_Witness ==
    /\ pc = "returned"
    /\ InputParses /\ ValidSingleEntity(InputDoc)
    /\ IsOrgKind(InputDoc) /\ CountryTyped(InputDoc)
    /\ result.status = "PASS"
    /\ result.issues = <<>>

\* C6: validating again the serialization of the returned document records
\* none of the auto-fixes of the first run.
C6_AutoFixIdempotent ==
    (pc = "revalidated" /\ IsReturned(rerun)) =>
        \A i \in 1..Len(rerun.auto_fixes) : \A j \in 1..Len(result.auto_fixes) :
            rerun.auto_fixes[i] # result.auto_fixes[j]

\* C7: a legacy @context is replaced by the canonical one with exactly one
\* auto-fix and no rule 2 issue; an absent, empty or other @context gives
\* exactly one rule 2 FAIL, no auto-fix and is left as it was; a canonical
\* one gives neither.
C7_ContextRule ==
    (pc = "returned" /\ result.parsed # JNone) =>
        LET before == Get(InputDoc, "@context", JNone)
            after == Get(result.parsed, "@context", JNone)
        IN /\ InLits(before, LEGACY_CONTEXTS) =>
                 /\ after = JStr("https://schema.org")
                 /\ Len(ContextFixes(result)) = 1
                 /\ NumIssues(result, 2) = 0
           /\ EqLit(before, "https://schema.org") =>
                 /\ after = before
                 /\ Len(ContextFixes(result)) = 0
                 /\ NumIssues(result, 2) = 0
           /\ (~InLits(before, LEGACY_CONTEXTS) /\ ~EqLit(before, "https://schema.org")) =>
                 /\ after = before
                 /\ Has(result.parsed, "@context") = Has(InputDoc, "@context")
                 /\ Len(ContextFixes(result)) = 0
                 /\ NumIssues(result, 2) = 1
                 /\ IssuesOf(result, 2)[1].sev = "FAIL"

\* A document with the legacy context http://www.schema.org was normalized.
C7_Witness ==
    /\ pc = "returned"
    /\ InputParses /\ IsDict(InputDoc)
    /\ EqLit(Get(InputDoc, "@context", JNone), "http://www.schema.org")
    /\ EqLit(Get(result.parsed, "@context", JNone), "https://schema.org")
    /\ Len(ContextFixes(result)) = 1

\* The paths of the extracted entities of the input whose telephone is a
\* non-empty string.
PhonePaths ==
    SelectSeq(_extract_entities(InputDoc), LAMBDA path : StringPhone(At(InputDoc, path)))

PhoneBefore(path) == CharsOf(Get(At(InputDoc, path), "telephone", JNone))
PhoneAfter(path) == CharsOf(Get(At(result.parsed, path), "telephone", JNone))

\* What rule 10 is to make of a telephone text c.
TenDigits(c) == ~IsE164(c) /\ Len(StripNonDigits(c)) = 10
ElevenDigits(c) ==
    ~IsE164(c) /\ Len(StripNonDigits(c)) = 11 /\ StripNonDigits(c)[1] = "1"
Unfixable(c) == ~IsE164(c) /\ ~TenDigits(c) /\ ~ElevenDigits(c)

\* C8: a telephone that is "+" and 10 to 15 digits is left alone; any other
\* non-empty telephone becomes "+1" and its digits when they are ten, "+"
\* and its digits when they are eleven starting with 1, each with one
\* auto-fix and no issue, and is otherwise left alone with one rule 10
\* WARN; so that every telephone ends in E.164 form or with a WARN.
C8_PhoneRule ==
    (pc = "returned" /\ result.parsed # JNone /\ IsDict(InputDoc)) =>
        /\ \A i \in 1..Len(PhonePaths) :
              LET c == PhoneBefore(PhonePaths[i]) IN
              /\ IsE164(c) => PhoneAfter(PhonePaths[i]) = c
              /\ TenDigits(c) => PhoneAfter(PhonePaths[i]) = <<"+", "1">> \o StripNonDigits(c)
              /\ ElevenDigits(c) => PhoneAfter(PhonePaths[i]) = <<"+">> \o StripNonDigits(c)
              /\ Unfixable(c) => PhoneAfter(PhonePaths[i]) = c
        /\ Len(PhoneFixes(result)) =
              Len(SelectSeq(PhonePaths, LAMBDA q : TenDigits(PhoneBefore(q)) \/ ElevenDigits(PhoneBefore(q))))
        /\ NumIssues(result, 10) =
              Len(SelectSeq(PhonePaths, LAMBDA q : Unfixable(PhoneBefore(q))))
        /\ \A i \in 1..Len(PhonePaths) :
              \/ IsE164(PhoneAfter(PhonePaths[i]))
              \/ \E n \in 1..Len(result.issues) :
                    /\ result.issues[n].rule = 10
                    /\ result.issues[n].arg = Get(At(InputDoc, PhonePaths[i]), "telephone", JNone)

\* C9: rule 13 never warns about a reference whose id is defined by an
\* entity of the document, is in the registry passed to the call, or is an
\* external URI.
C9_NoWarnWhenResolved ==
    (pc = "returned" /\ result.parsed # JNone) =>
        \A i \in 1..Len(result.issues) :
            result.issues[i].rule = 13 =>
                ~Resolves(result.issues[i].arg, InputDoc, all_defined_ids)

\* The one bare reference of a document names an id of the registry and has
\* gone through rule 13 without a warning.
C9_Witness ==
    /\ pc = "returned"
    /\ result.parsed # JNone
    /\ all_defined_ids = {IdOrg}
    /\ 13 \in frame.evaluated
    /\ Len(BareRefsIn(InputDoc)) = 1
    /\ BareRefsIn(InputDoc)[1] = JStr(IdOrg)
    /\ NumIssues(result, 13) = 0

\* C10: a document with exactly one bare reference, whose id does not
\* resolve, gets exactly one rule 13 WARN, wherever the reference is.
C10_OneWarnPerReference ==
    (/\ pc = "returned"
     /\ result.parsed # JNone
     /\ all_defined_ids # NoRegistry
     /\ Len(BareRefsIn(InputDoc)) = 1
     /\ IsString(BareRefsIn(InputDoc)[1])
     /\ ~Resolves(BareRefsIn(InputDoc)[1], InputDoc, all_defined_ids))
    => NumIssues(result, 13) = 1

\* The document is a @graph with a WebContent member and a Service member,
\* both with an @id, where the mainEntity of the WebContent is an object
\* whose @id is not the @id of the Service and the Service has no subjectOf.
MiswiredPair(doc) ==
    /\ IsDict(doc) /\ Has(doc, "@graph")
    /\ \E w \in 1..Len(TopOf(doc)) : \E s \in 1..Len(TopOf(doc)) :
          LET c == TopOf(doc)[w]
              n == TopOf(doc)[s]
          IN /\ EqLit(Get(c, "@type", JNone), "WebContent")
             /\ EqLit(Get(n, "@type", JNone), "Service")
             /\ Truthy(Get(c, "@id", JNone)) /\ Truthy(Get(n, "@id", JNone))
             /\ IsDict(Get(c, "mainEntity", JNone))
             /\ Get(Get(c, "mainEntity", JNone), "@id", JNone) # Get(n, "@id", JNone)
             /\ ~Has(n, "subjectOf")

\* Rule 16 has recorded the mismatch and the missing back-link, and the
\* status is not PASS.
WiringReported(r) ==
    /\ NumIssues(r, 16) >= 2
    /\ \A i \in 1..NumIssues(r, 16) : IssuesOf(r, 16)[i].sev = "WARN"
    /\ \E i \in 1..NumIssues(r, 16) :
          IssuesOf(r, 16)[i].text = "Dual-type: mainEntity @id doesn't match nested entity @id"
    /\ \E i \in 1..NumIssues(r, 16) :
          IssuesOf(r, 16)[i].text = "Dual-type: nested missing subjectOf"
    /\ r.status \in {"WARN", "FAIL"}

\* C11 as stated: every returned result for a document with a miswired
\* WebContent and Service has the two rule 16 WARNs and is not PASS.
C11_MiswiredPairWarned ==
    (pc = "returned" /\ InputParses /\ MiswiredPair(InputDoc)) => WiringReported(result)

\* The entities of a major type that extraction finds: members of @graph
\* and their typed direct sub-objects.
MajorEntities(doc) ==
    SelectSeq(EntitiesOf(doc), LAMBDA e : InLits(Get(e, "@type", JNone), major_types))

\* C11 amended: the two rule 16 WARNs are recorded when the miswired
\* WebContent and Service are the only entities of a major type.
C11_MiswiredLonePairWarned ==
    (/\ pc = "returned" /\ InputParses
     /\ MiswiredPair(InputDoc)
     /\ Len(MajorEntities(InputDoc)) = 2)
    => WiringReported(result)

\* A miswired lone pair has been validated and its result is WARN.
C11_Witness ==
    /\ pc = "returned" /\ InputParses
    /\ MiswiredPair(InputDoc)
    /\ Len(MajorEntities(InputDoc)) = 2
    /\ NumIssues(result, 16) >= 2
    /\ result.status = "WARN"

\* C14: no step of validate_jsonld changes the registry it was given.
C14_RegistryReadOnly == [][all_defined_ids' = all_defined_ids]_vars

\* A call with a registry has returned for a document that defines an id
\* the registry does not hold.
C14_Witness ==
    /\ pc = "returned"
    /\ 13 \in frame.evaluated
    /\ all_defined_ids = {IdOrg}
    /\ \E id \in LocalIds(frame) : id.k = "str" /\ id.s \notin all_defined_ids

----------------------------------------------------------------------------
(* The batch run                                                           *)

\* Row k of the batch got a document (its generation gave no error), and
\* that document.
RowParsed(k) == generate_jsonld_for_row(replies[k]).error = ""
RowDoc(k) == generate_jsonld_for_row(replies[k]).jsonld_str.body

\* The non-empty ids of the root (when there is no @graph) or of the
\* members of @graph of a document.
TopIds(doc) ==
    IF ~IsDict(doc) THEN {}
    ELSE {Get(TopOf(doc)[n], "@id", JNone).s :
             n \in {m \in 1..Len(TopOf(doc)) : /\ Truthy(Get(TopOf(doc)[m], "@id", JNone))
                                               /\ Get(TopOf(doc)[m], "@id", JNone).k = "str"}}

\* The ids defined by the documents of the rows before k, and after k.
EarlierIds(k) == UNION {TopIds(RowDoc(j)) : j \in {n \in 1..(k - 1) : RowParsed(n)}}
LaterIds(k) == UNION {TopIds(RowDoc(j)) : j \in {n \in (k + 1)..Len(replies) : RowParsed(n)}}

\* Every call of validate_jsonld got as registry the ids of the documents
\* of the earlier rows, and nothing else.
RegistryIsEarlierIds ==
    \A c \in 1..Len(calls) : calls[c].ids = EarlierIds(calls[c].row)

\* The rule 13 issues of a result that name the id.
WarnsFor(r, id) ==
    SelectSeq(r.validation.issues, LAMBDA iss : iss.rule = 13 /\ iss.arg = id)

\* For every validated row, a bare reference to an id defined by an
\* earlier document is not warned, and one to an id defined only by a
\* later document is.
ForwardWarnedBackwardNot ==
    \A n \in 1..Len(results) :
        LET r == results[n]
            doc == RowDoc(r.row)
            refs == BareRefsIn(doc)
        IN r.error = "" =>
           \A x \in 1..Len(refs) :
              refs[x].k = "str" =>
                 /\ refs[x].s \in EarlierIds(r.row) => Len(WarnsFor(r, refs[x])) = 0
                 /\ (/\ refs[x].s \in LaterIds(r.row)
                     /\ refs[x].s \notin EarlierIds(r.row)
                     /\ refs[x] \notin DefinedIds(doc)
                     /\ refs[x].s \notin ExternalIds)
                    => Len(WarnsFor(r, refs[x])) >= 1

\* C12: the registry passed for row k holds the ids of the documents of
\* rows 1..k-1 and no other id, so that a reference to an id of an earlier
\* document is not warned and one to an id of a later document only is.
C12_ReadAfterWrite == RegistryIsEarlierIds /\ ForwardWarnedBackwardNot

\* The registry at the end of Phase 4 over the replies taken in the given
\* order, or Crashed when that run ends with an exception.
Crashed == {"<crashed>"}

RECURSIVE RegistryAfter(_, _, _)
RegistryAfter(order, k, ids) ==
    IF k > Len(order) THEN ids
    ELSE LET g == generate_jsonld_for_row(order[k]) IN
         IF g.error # "" THEN RegistryAfter(order, k + 1, ids)
         ELSE LET validation == validate_jsonld(g.jsonld_str, ids) IN
              IF validation = Raised \/ RegistrationRaises(validation.parsed) THEN Crashed
              ELSE RegistryAfter(order, k + 1, ids \cup CollectIds(validation.parsed))

Orders(n) == {f \in [1..n -> 1..n] : \A a, b \in 1..n : f[a] = f[b] => a = b}

\* A turn of the loop that validates a document adds to the registry the
\* non-empty ids of its root or of the members of its @graph, no other.
RegistersTopIds ==
    (pc = "phase4" /\ row_idx' = row_idx + 1 /\ RowParsed(row_idx))
    => all_defined_ids' = all_defined_ids \cup TopIds(RowDoc(row_idx))

\* No step removes an id.
RegistryGrows == all_defined_ids \subseteq all_defined_ids'

\* After the loop the registry is the one every order of the same replies
\* ends with.
SameInEveryOrder ==
    pc \in {"phase5", "done"} =>
        \A f \in Orders(Len(replies)) :
            RegistryAfter([k \in 1..Len(replies) |-> replies[f[k]]], 1, {}) = all_defined_ids

\* C13: registering a validated document adds exactly the non-empty ids of
\* its root or of its @graph members, never those of nested sub-entities;
\* no id is ever removed; the final registry does not depend on the order
\* in which the documents are processed.
C13_RegistrationIsTopLevelSet ==
    /\ [][RegistersTopIds /\ RegistryGrows]_vars
    /\ []SameInEveryOrder

\* A @graph document with a nested sub-entity that has an id of its own was
\* registered after another document: the id of the member is in the
\* registry, the id of the sub-entity is not.
C13_Witness ==
    /\ pc = "done"
    /\ Len(results) >= 2
    /\ \E n \in 1..Len(results) : results[n].error = "" /\ RowDoc(results[n].row) = BatchGraph
    /\ IdPage \in all_defined_ids /\ IdOrg \in all_defined_ids
    /\ IdPlace \notin all_defined_ids

\* The turn of the loop for a row whose generation gave an error appends
\* the synthetic FAIL result and touches nothing else; the loop goes on.
ErrorRowStep ==
    (pc = "phase4" /\ row_idx <= Len(replies) /\ ~RowParsed(row_idx))
    => LET error == generate_jsonld_for_row(replies[row_idx]).error
           r == results'[Len(results')]
       IN /\ Len(results') = Len(results) + 1
          /\ SubSeq(results', 1, Len(results)) = results
          /\ r.row = row_idx /\ r.error = error /\ error # ""
          /\ r.validation.status = "FAIL"
          /\ Len(r.validation.issues) = 1
          /\ r.validation.issues[1].sev = "FAIL"
          /\ r.validation.issues[1].text = error
          /\ r.validation.auto_fixes = <<>>
          /\ r.validation.parsed = JNone
          /\ calls' = calls
          /\ all_defined_ids' = all_defined_ids
          /\ jsonld_blocks' = jsonld_blocks
          /\ row_idx' = row_idx + 1 /\ pc' = "phase4"

\* The rows with a document are validated as if the error rows were not
\* there: against the ids of the documents before them, and every row
\* gets its result, in row order.
ErrorRowsLeaveNoTrace ==
    /\ \A n \in 1..Len(results) :
          /\ results[n].row = n
          /\ results[n].error = "" =>
                LET v == validate_jsonld(json_dumps(RowDoc(n)), EarlierIds(n)) IN
                /\ results[n].validation.status = v.status
                /\ results[n].validation.issues = v.issues
                /\ results[n].validation.auto_fixes = v.auto_fixes
    /\ \A c \in 1..Len(calls) : RowParsed(calls[c].row)
    /\ pc \in {"phase5", "done"} => Len(results) = Len(replies)

\* C15: an error row gets the result FAIL with the error as only issue, no
\* auto-fix and no parsed document; validate_jsonld is not called for it,
\* the registry and the blocks are left as they were, and the rows after it
\* are processed as usual.
C15_ErrorRowIsSyntheticFail ==
    /\ [][ErrorRowStep]_vars
    /\ []ErrorRowsLeaveNoTrace

\* A run is over in which a row with a document came after an error row
\* and after a registered document, and resolved a reference to the latter.
C15_Witness ==
    /\ pc = "done"
    /\ Len(results) = 3
    /\ results[1].error = "" /\ RowDoc(1) = BatchOrg
    /\ results[2].error = "API error"
    /\ results[3].error = "" /\ RowDoc(3) = BatchService
    /\ Len(WarnsFor(results[3], JStr(IdOrg))) = 0
    /\ Len(calls) = 2

\* The answer to the wiring pass is no corrected array: the call raised, or
\* the text is not valid JSON, or it is JSON but not an array.
WiringFailed(reply) ==
    \/ reply.kind # "text"
    \/ reply.text.wrap \notin {"none", "fenced"}
    \/ ~IsList(reply.text.body)

\* Phase 5 with such an answer: graph_wiring_pass gives back the blocks it
\* was given and every result keeps its parsed document.
FailedWiringKeepsDocuments ==
    (pc = "phase5" /\ pc' = "done" /\ WiringFailed(wiring'))
    => /\ graph_wiring_pass(jsonld_blocks, wiring') = jsonld_blocks
       /\ Len(results') = Len(results)
       /\ \A n \in 1..Len(results) :
             results'[n].validation.parsed = results[n].validation.parsed

\* C16: when the wiring pass fails (the reply is not valid JSON, is not a
\* JSON array, or the call raises) graph_wiring_pass returns the submitted
\* blocks and after Phase 5 every result has the parsed document it had.
C16_FailedWiringKeepsDocuments == [][FailedWiringKeepsDocuments]_vars

\* Phase 5 has run over two blocks with a reply that is a JSON object, not
\* an array.
C16_Witness ==
    /\ pc = "done"
    /\ wiring.kind = "text" /\ wiring.text.wrap = "none" /\ IsDict(wiring.text.body)
    /\ Len(jsonld_blocks) = 2
    /\ \A n \in 1..Len(results) :
          Truthy(results[n].validation.parsed) =>
             results[n].validation.parsed \in {jsonld_blocks[1], jsonld_blocks[2]}

----------------------------------------------------------------------------
(* Row preparation and the report                                          *)

\* The components of a type string: "Container|Nested" has two.
TypeParts(t) ==
    CASE t = "WebContent|Service" -> <<"WebContent", "Service">>
      [] t = "WebContent|Person" -> <<"WebContent", "Person">>
      [] t = "WebContent|Organization" -> <<"WebContent", "Organization">>
      [] t = "WebContent|LocalBusiness" -> <<"WebContent", "LocalBusiness">>
      [] t = "WebContent|Article" -> <<"WebContent", "Article">>
      [] t = "Service|Service" -> <<"Service", "Service">>
      [] t = "Person|Person" -> <<"Person", "Person">>
      [] t = "Service|WebContent" -> <<"Service", "WebContent">>
      [] t = "Person|Service" -> <<"Person", "Service">>
      [] t = "Organization|LocalBusiness" -> <<"Organization", "LocalBusiness">>
      [] OTHER -> <<t>>

IsDualType(t) == Len(TypeParts(t)) = 2

\* The primary entity type: the nested type of a dual type, else the type.
PrimaryType(t) == TypeParts(t)[Len(TypeParts(t))]

TypesAssigned == pc \in {"hierarchy", "report", "reported"}
HierarchyBuilt == pc \in {"report", "reported"}

\* C17: the hierarchy has an entry for the URL of every row whose primary
\* entity type is Service - single Service and dual with nested Service -
\* and for no other URL.
C17_HierarchyOfServiceRows ==
    HierarchyBuilt =>
        {hierarchy[n].url : n \in 1..Len(hierarchy)}
        = {rows[n].URL : n \in {m \in 1..Len(rows) : PrimaryType(rows[m]._inferred_type) = "Service"}}

\* The path of the URL once its trailing slashes are normalized.
NormalPath(url) == Append(RStripSlash(get_url_path(url)), Slash)

\* The patterns, in list order, that match the path.
MatchingPatterns(path) ==
    SelectSeq(URL_TYPE_PATTERNS, LAMBDA pat : re_match(pat[1], path))

\* What the inference of a URL has to be: Organization for the root, the
\* first matching pattern's type otherwise, WebContent/Low without match.
InferredAsListed(url, type, confidence) ==
    LET path == NormalPath(url) IN
    /\ path = <<Slash>> => type = "Organization" /\ confidence = "High"
    /\ (path # <<Slash>> /\ MatchingPatterns(path) # <<>>)
       => type = MatchingPatterns(path)[1][2] /\ confidence = MatchingPatterns(path)[1][3]
    /\ (path # <<Slash>> /\ MatchingPatterns(path) = <<>>)
       => type = "WebContent" /\ confidence = "Low"

\* The URL is /team/<slug> with or without trailing slashes.
IsTeamMember(url) ==
    LET path == NormalPath(url) IN
    Len(path) = 5 /\ path[1] = Slash /\ path[2] = "team" /\ path[3] = Slash /\ path[4] # Slash

\* C18: every row without override has the type and confidence of the
\* root, of the first matching pattern or of the default; /team/<slug>/ is
\* WebContent|Person with High; and the result is the same with one more
\* and with no trailing slash on the URL.
C18_InferenceByFirstPattern ==
    TypesAssigned =>
        \A n \in 1..Len(rows) :
            rows[n].SchemaType = "" =>
                /\ InferredAsListed(rows[n].URL, rows[n]._inferred_type, rows[n]._type_confidence)
                /\ IsTeamMember(rows[n].URL) =>
                      rows[n]._inferred_type = "WebContent|Person" /\ rows[n]._type_confidence = "High"
                /\ infer_schema_type(Append(rows[n].URL, Slash))
                      = <<rows[n]._inferred_type, rows[n]._type_confidence>>
                /\ infer_schema_type(RStripSlash(rows[n].URL))
                      = <<rows[n]._inferred_type, rows[n]._type_confidence>>

\* A /team/<slug> URL written with two trailing slashes got the dual type.
C18_Witness ==
    /\ TypesAssigned
    /\ Len(rows) = 1
    /\ rows[1].SchemaType = ""
    /\ rows[1].URL = Url(<<Slash, "team", Slash, "jane", Slash, Slash>>)
    /\ rows[1]._inferred_type = "WebContent|Person"
    /\ rows[1]._type_confidence = "High"

\* The dual-type string fails the dual-type validation: it is not on the
\* allow-list and is a listed bad combination, or its first component is
\* not the container type, or its two components are the same.
InvalidDual(t) ==
    /\ IsDualType(t)
    /\ t \notin VALID_DUAL_TYPES
    /\ \/ t \in INVALID_DUAL_TYPES
       \/ TypeParts(t)[1] # "WebContent"
       \/ TypeParts(t)[1] = TypeParts(t)[2]

\* C19: a non-empty override is the type of the row; the confidence is
\* "Override" for a single type or a valid dual type, and records the
\* validation failure, not plain "Override", for an invalid dual type.
C19_OverrideWins ==
    TypesAssigned =>
        \A n \in 1..Len(rows) :
            rows[n].SchemaType # "" =>
                /\ rows[n]._inferred_type = rows[n].SchemaType
                /\ ~InvalidDual(rows[n].SchemaType) => rows[n]._type_confidence = "Override"
                /\ InvalidDual(rows[n].SchemaType) => rows[n]._type_confidence # "Override"

\* The rows whose assigned type is a dual type.
DualRows == SelectSeq(rows, LAMBDA row : IsDualType(row._inferred_type))

\* C20: in the report passed + warned + failed is the number of rows, the
\* dual-type count is the number of rows with a dual type, the single-type
\* count is the rest, and the dual-type table has one line per dual row.
C20_ReportCounts ==
    pc = "reported" =>
        /\ report.passed + report.warned + report.failed = Len(rows)
        /\ report.total = Len(rows)
        /\ report.dual_count = Len(DualRows)
        /\ report.single_count = Len(rows) - Len(DualRows)
        /\ Len(report.dual_table) = Len(DualRows)
        /\ \A n \in 1..Len(DualRows) : report.dual_table[n].url = DualRows[n].URL

----------------------------------------------------------------------------
(* Faults, references, wiring and extraction inside validate_jsonld        *)

\* The call has ended: with a result, or with an exception.
Ended == pc \in {"returned", "revalidated", "raised"}

\* C21: when the raw text parses to a document whose entities can be
\* extracted, the call ends with a ValidationResult for which every rule
\* has been evaluated, also when the evaluation of one rule faults (a
\* telephone or a date that is not a string, an @type that is a list).
C21_RulesAreIsolated ==
    (Ended /\ InputParses /\ ~ExtractFaults(InputDoc)) =>
        /\ IsReturned(result)
        /\ frame.evaluated = RulesToRun(all_defined_ids)

\* C22: every bare reference of the document whose id does not resolve
\* has a rule 13 WARN naming it, wherever it occurs: as a property value,
\* in a nested object or as an element of an array.
C22_EveryBareReferenceChecked ==
    (pc = "returned" /\ result.parsed # JNone /\ all_defined_ids # NoRegistry) =>
        \A i \in 1..Len(BareRefsIn(InputDoc)) :
            (/\ IsString(BareRefsIn(InputDoc)[i])
             /\ ~Resolves(BareRefsIn(InputDoc)[i], InputDoc, all_defined_ids))
            => \E n \in 1..Len(result.issues) :
                  /\ result.issues[n].rule = 13
                  /\ result.issues[n].sev = "WARN"
                  /\ result.issues[n].arg = BareRefsIn(InputDoc)[i]

NestedKinds == {"Service", "Person", "LocalBusiness", "Organization"}

\* The WebContent entities and the nested-kind entities among the major
\* entities of the document.
ContainersIn(doc) ==
    SelectSeq(MajorEntities(doc), LAMBDA e : EqLit(Get(e, "@type", JNone), "WebContent"))
NestedsIn(doc) ==
    SelectSeq(MajorEntities(doc), LAMBDA e : InLits(Get(e, "@type", JNone), NestedKinds))

\* The document holds one WebContent and one nested-kind entity, as
\* members of a @graph or as a root and the typed value of a property.
IsDualBlock(doc) == IsDict(doc) /\ Len(ContainersIn(doc)) = 1 /\ Len(NestedsIn(doc)) = 1

\* The link between container c and nested entity n is broken: mainEntity
\* or subjectOf is missing, or one of them names another id.
BrokenLink(c, n) ==
    \/ ~Truthy(Get(c, "mainEntity", JNone))
    \/ ~Truthy(Get(n, "subjectOf", JNone))
    \/ /\ IsDict(Get(c, "mainEntity", JNone))
       /\ Get(Get(c, "mainEntity", JNone), "@id", JNone) # Get(n, "@id", JNone)
    \/ /\ IsDict(Get(n, "subjectOf", JNone))
       /\ Get(Get(n, "subjectOf", JNone), "@id", JNone) # Get(c, "@id", JNone)

\* C23: a document with one WebContent and one nested-kind entity whose
\* link is broken gets a rule 16 WARN, with or without @graph; a document
\* with fewer than two major entities, without WebContent or without a
\* nested-kind entity gets no rule 16 issue.
C23_Rule16InBothShapes ==
    (pc = "returned" /\ result.parsed # JNone) =>
        /\ (IsDualBlock(InputDoc) /\ BrokenLink(ContainersIn(InputDoc)[1], NestedsIn(InputDoc)[1]))
           => /\ NumIssues(result, 16) >= 1
              /\ \A i \in 1..NumIssues(result, 16) : IssuesOf(result, 16)[i].sev = "WARN"
        /\ (\/ Len(MajorEntities(InputDoc)) < 2
            \/ ContainersIn(InputDoc) = <<>>
            \/ NestedsIn(InputDoc) = <<>>)
           => NumIssues(result, 16) = 0

\* The entity has an address whose addressCountry is a dict with @type
\* Country, a name and an @id.
FullCountry(e) ==
    /\ CountryTyped(e)
    /\ Truthy(Get(Get(Get(e, "address", JNone), "addressCountry", JNone), "name", JNone))
    /\ Truthy(Get(Get(Get(e, "address", JNone), "addressCountry", JNone), "@id", JNone))

\* The Organization and LocalBusiness entities of the document.
OrgKinds(doc) == SelectSeq(EntitiesOf(doc), IsOrgKind)

\* C24: rule 9 records at most one WARN, and records it exactly when the
\* document has an Organization or LocalBusiness entity and none of these
\* has an address with a fully defined country (type, name and id).
C24_CountryOfAnOrganization ==
    (pc = "returned" /\ result.parsed # JNone) =>
        /\ NumIssues(result, 9) <= 1
        /\ \A i \in 1..NumIssues(result, 9) : IssuesOf(result, 9)[i].sev = "WARN"
        /\ NumIssues(result, 9) = 1
           <=> /\ OrgKinds(InputDoc) # <<>>
               /\ \A j \in 1..Len(OrgKinds(InputDoc)) : ~FullCountry(OrgKinds(InputDoc)[j])

\* What rules 3 to 7, 10 and 11 find on one dict.
FabricatedType(e) == Truthy(TypeOf(e)) /\ ~InLits(TypeOf(e), valid_types)
MissingId(e) == InLits(Get(e, "@type", JNone), major_types) /\ ~Truthy(Get(e, "@id", JNone))
DeprecatedProps(e) == SelectSeq(Keys(e), LAMBDA key : key \in DEPRECATED_PROPERTIES)
InvalidProps(e) ==
    IF InLits(TypeOf(e), INVALID_PROPERTIES_KEYS)
    THEN SelectSeq(Keys(e), LAMBDA key : key \in INVALID_PROPERTIES(TypeOf(e).s))
    ELSE <<>>
BadPhone(e) == StringPhone(e) /\ ~MatchE164(CharsOf(Get(e, "telephone", JNone)))
BadDates(e) ==
    SelectSeq(date_props, LAMBDA dp : /\ Truthy(Get(e, dp, JNone))
                                      /\ ~_is_valid_date(CharsOf(Get(e, dp, JNone))))

\* The typed dicts of the document that lie deeper than extraction
\* reaches: a typed value of a typed value of a top entity, and the typed
\* elements of the arrays of a top entity.
Beyond(doc) ==
    LET top == TopOf(doc)
        subs == Flatten([j \in 1..Len(top) |-> SubObjects(top[j])])
        Items(e) == Flatten([i \in 1..Len(e.p) |->
                       IF IsList(e.p[i][2])
                       THEN SelectSeq(e.p[i][2].xs, LAMBDA x : IsDict(x) /\ Has(x, "@type"))
                       ELSE <<>>])
    IN Flatten([j \in 1..Len(subs) |-> SubObjects(subs[j])])
       \o Flatten([j \in 1..Len(top) |-> Items(top[j])])

\* C25: extraction gives the dict members of @graph, or the root when
\* there is no @graph, then the typed dict values of these and nothing
\* deeper; rules 3 to 7, 10 and 11 report on these entities only.
C25_ExtractionIsOnePass ==
    /\ pc = "rule2" => EntityDicts(frame) = EntitiesOf(InputDoc)
    /\ (pc = "returned" /\ result.parsed # JNone) =>
          LET es == EntitiesOf(InputDoc) IN
          /\ NumIssues(result, 3) = Len(SelectSeq(es, FabricatedType))
          /\ NumIssues(result, 4) = Len(SelectSeq(es, MissingId))
          /\ NumIssues(result, 5) = Len(SelectSeq(es, LAMBDA e : InLits(TypeOf(e), DEPRECATED_TYPES)))
          /\ NumIssues(result, 6) = Len(Flatten([j \in 1..Len(es) |-> DeprecatedProps(es[j])]))
          /\ NumIssues(result, 7) = Len(Flatten([j \in 1..Len(es) |-> InvalidProps(es[j])]))
          /\ NumIssues(result, 10) + Len(PhoneFixes(result)) = Len(SelectSeq(es, BadPhone))
          /\ NumIssues(result, 11) = Len(Flatten([j \in 1..Len(es) |-> BadDates(es[j])]))

\* A document whose faulty dict lies two levels down has been validated:
\* the root and its typed value were extracted, the faulty dict was not,
\* and none of its faults is reported.
C25_Witness ==
    /\ pc = "returned" /\ InputParses
    /\ InputDoc = Doc(CanonCtx, TypeIs("Service"), IdIs(IdSvc), DeepAt("grandchild", "Fabricated"))
    /\ Len(frame.entities) = 2
    /\ Beyond(InputDoc) = <<Faulty("Fabricated")>>
    /\ result.issues = <<>>
    /\ result.status = "PASS"

----------------------------------------------------------------------------
(* The service hierarchy                                                   *)

HierarchyUrls == [n \in 1..Len(hierarchy) |-> hierarchy[n].url]

\* The entry of the hierarchy for a URL.
EntryOf(url) == hierarchy[CHOOSE n \in 1..Len(hierarchy) : hierarchy[n].url = url]

\* The path segments of p are those of u without the last one.
SegmentParent(p, u) ==
    /\ p # u
    /\ Len(Segments(u)) >= 1
    /\ Segments(p) = SubSeq(Segments(u), 1, Len(Segments(u)) - 1)

ServicesRoot == Url(<<Slash, "services", Slash>>)
ServicesAc == Url(<<Slash, "services", Slash, "ac", Slash>>)
ServicesAcRepair == Url(<<Slash, "services", Slash, "ac", Slash, "repair", Slash>>)

\* C26: a parent that is set is another service URL whose segments are
\* those of the URL without the last one, and the first such URL in the
\* order of the hierarchy; for /services/, /services/ac/ and
\* /services/ac/repair/ the parents are /services/ac/, /services/ and none.
C26_ParentIsSegmentPrefix ==
    HierarchyBuilt =>
        /\ \A n \in 1..Len(hierarchy) :
              hierarchy[n].parent # NoUrl =>
                 /\ \E m \in 1..Len(hierarchy) : hierarchy[m].url = hierarchy[n].parent
                 /\ SegmentParent(hierarchy[n].parent, hierarchy[n].url)
                 /\ hierarchy[n].parent
                       = SelectSeq(HierarchyUrls, LAMBDA p : SegmentParent(p, hierarchy[n].url))[1]
        /\ {HierarchyUrls[n] : n \in 1..Len(hierarchy)} = {ServicesRoot, ServicesAc, ServicesAcRepair}
           => /\ EntryOf(ServicesAcRepair).parent = ServicesAc
              /\ EntryOf(ServicesAc).parent = ServicesRoot
              /\ EntryOf(ServicesRoot).parent = NoUrl
              /\ EntryOf(ServicesRoot).depth = 1

InSeq(x, seq) == \E i \in 1..Len(seq) : seq[i] = x
Occurrences(x, seq) == Cardinality({i \in 1..Len(seq) : seq[i] = x})

\* C27: children is the inverse of parent: v is in children(u) exactly
\* when parent(v) = u, and v is in the children of at most one URL, once.
C27_ChildrenInverseOfParent ==
    HierarchyBuilt =>
        \A n \in 1..Len(hierarchy) : \A m \in 1..Len(hierarchy) :
            /\ InSeq(hierarchy[m].url, hierarchy[n].children)
               <=> hierarchy[m].parent = hierarchy[n].url
            /\ Occurrences(hierarchy[m].url, hierarchy[n].children) <= 1
            /\ Cardinality({k \in 1..Len(hierarchy) :
                               InSeq(hierarchy[m].url, hierarchy[k].children)}) <= 1

\* C28: v is in siblings(u) exactly when u and v are different service
\* URLs of the same depth with the same parent, which is not None; so the
\* relation is symmetric, URLs without parent are not siblings, and no URL
\* is its own sibling or listed twice.
C28_SiblingsShareAParent ==
    HierarchyBuilt =>
        \A n \in 1..Len(hierarchy) :
            /\ \A i \in 1..Len(hierarchy[n].siblings) : InSeq(hierarchy[n].siblings[i], HierarchyUrls)
            /\ \A m \in 1..Len(hierarchy) :
                  /\ InSeq(hierarchy[m].url, hierarchy[n].siblings)
                     <=> /\ n # m
                         /\ hierarchy[m].depth = hierarchy[n].depth
                         /\ hierarchy[n].parent # NoUrl
                         /\ hierarchy[m].parent = hierarchy[n].parent
                  /\ InSeq(hierarchy[m].url, hierarchy[n].siblings)
                     <=> InSeq(hierarchy[n].url, hierarchy[m].siblings)
                  /\ (hierarchy[n].parent = NoUrl /\ hierarchy[m].parent = NoUrl)
                     => ~InSeq(hierarchy[m].url, hierarchy[n].siblings)
                  /\ Occurrences(hierarchy[m].url, hierarchy[n].siblings) <= 1
            /\ ~InSeq(hierarchy[n].url, hierarchy[n].siblings)

\* Two services under /services/ are siblings of each other, and
\* /services/, which has no parent, has no sibling.
C28_Witness ==
    /\ HierarchyBuilt
    /\ \E n \in 1..Len(hierarchy) : \E m \in 1..Len(hierarchy) :
          /\ hierarchy[n].url = ServicesAc
          /\ hierarchy[m].url = Url(<<Slash, "services", Slash, "heating", Slash>>)
          /\ hierarchy[n].parent = ServicesRoot
          /\ hierarchy[n].siblings = <<hierarchy[m].url>>
          /\ hierarchy[m].siblings = <<hierarchy[n].url>>
          /\ EntryOf(ServicesRoot).siblings = <<>>

----------------------------------------------------------------------------
(* The results, the blocks and the wiring pass                             *)

\* The positions of the results that have a parsed document, and of those
\* whose parsed document is not empty.
WithDocument(rs) ==
    SelectSeq([n \in 1..Len(rs) |-> n], LAMBDA n : rs[n].validation.parsed # JNone)
WithNonEmptyDocument(rs) ==
    SelectSeq([n \in 1..Len(rs) |-> n], LAMBDA n : Truthy(rs[n].validation.parsed))

\* After Phase 4 there is one result per row, in row order.
OneResultPerRow ==
    pc \in {"phase5", "done"} =>
        /\ Len(results) = Len(replies)
        /\ \A n \in 1..Len(results) : results[n].row = n

\* The blocks are the parsed documents of the results at the positions.
BlocksAre(positions) ==
    pc = "phase5" =>
        jsonld_blocks = [k \in 1..Len(positions) |-> results[positions[k]].validation.parsed]

\* The step of Phase 5 in which the wiring pass returned an array.
WiringReturnedArray == pc = "phase5" /\ pc' = "done" /\ ~WiringFailed(wiring')

\* In that step the k-th of the positions takes the k-th returned block
\* while there is one; every other result stays as it was.
BlocksGoTo(positions) ==
    LET returned == wiring'.text.body.xs IN
    (WiringReturnedArray /\ Len(returned) <= Len(jsonld_blocks)) =>
        /\ Len(results') = Len(results)
        /\ \A n \in 1..Len(results) :
              ~InSeq(n, positions) => results'[n] = results[n]
        /\ \A k \in 1..Len(positions) :
              IF k <= Len(returned)
              THEN /\ results'[positions[k]].validation.parsed = returned[k]
                   /\ results'[positions[k]].jsonld = json_dumps(returned[k])
              ELSE results'[positions[k]] = results[positions[k]]

\* C29 as stated: one result per row in row order; the blocks are the
\* parsed documents of the results that have one; Phase 5 gives the k-th
\* of these results the k-th returned block, leaves the results without
\* document alone, and those beyond a shorter array keep their documents.
C29_BlocksFollowResults ==
    /\ []OneResultPerRow
    /\ []BlocksAre(WithDocument(results))
    /\ [][BlocksGoTo(WithDocument(results))]_vars

\* C29 amended: the same, for the results whose parsed document is not
\* the empty object.
C29_BlocksFollowNonEmptyResults ==
    /\ []OneResultPerRow
    /\ []BlocksAre(WithNonEmptyDocument(results))
    /\ [][BlocksGoTo(WithNonEmptyDocument(results))]_vars

\* Three rows, the second with the empty object for document: the wiring
\* pass returned two blocks, which went to the first and the third result.
C29_Witness ==
    /\ pc = "done"
    /\ Len(results) = 3
    /\ results[2].validation.parsed = EmptyDict
    /\ Len(jsonld_blocks) = 2
    /\ ~WiringFailed(wiring)
    /\ wiring.text.body.xs = <<Rewired(jsonld_blocks[1]), Rewired(jsonld_blocks[2])>>
    /\ results[1].validation.parsed = Rewired(jsonld_blocks[1])
    /\ results[3].validation.parsed = Rewired(jsonld_blocks[2])

\* The registry the document of result r may be validated against: the one
\* passed when its row was validated, or the one at the end of Phase 4.
RegistriesFor(r) ==
    {all_defined_ids} \cup {calls[i].ids : i \in {j \in 1..Len(calls) : calls[j].row = r.row}}

\* The verdict of result r is that of a validation of the document it holds.
VerdictIsOfDocument(r) ==
    \E ids \in RegistriesFor(r) :
        LET v == validate_jsonld(json_dumps(r.validation.parsed), ids) IN
        /\ r.validation.status = v.status
        /\ r.validation.issues = v.issues
        /\ r.validation.auto_fixes = v.auto_fixes

\* In the step of Phase 5 every result whose document was replaced by a
\* different one has the verdict of the new document.
ReplacedIsRevalidated ==
    (pc = "phase5" /\ pc' = "done") =>
        \A n \in 1..Len(results) :
            results'[n].validation.parsed # results[n].validation.parsed
            => VerdictIsOfDocument(results'[n])

\* No block submitted to the wiring pass is the document of a FAIL result.
NoFailSubmitted ==
    pc = "phase5" =>
        \A n \in 1..Len(results) :
            results[n].validation.status = "FAIL"
            => ~InSeq(results[n].validation.parsed, jsonld_blocks)

\* C30: a result whose document the wiring pass replaced by a different
\* one is validated again for the new document, and the documents of FAIL
\* results are not submitted to the wiring pass.
C30_ReportedIsValidated ==
    /\ [][ReplacedIsRevalidated]_vars
    /\ []NoFailSubmitted

====
